---- MODULE Spec2Model ----
(***************************************************************************)
(* Verification model of the fuel-canary-watchtower core:                  *)
(*   - the alert cache and router        (src/src/alerter.rs)              *)
(*   - the ethereum action dispatcher    (src/src/ethereum_actions.rs)     *)
(*   - the ethereum and fuel watch loops (src/src/ethereum_watcher.rs,     *)
(*                                        src/src/fuel_watcher.rs)         *)
(* Each component has its own specification over the shared variables.     *)
(***************************************************************************)
EXTENDS Integers, Sequences, FiniteSets, TLC

VARIABLES
    now,                          \* the clock (Instant::now / SystemTime::now), in seconds
    alert_cache_expiry,           \* WatchtowerAlerter.alert_cache_expiry
    allowed_alerting_start_time,  \* WatchtowerAlerter.allowed_alerting_start_time
    alertQueue,                   \* the unbounded alert channel
    alert_cache,                  \* WatchtowerAlerter.alert_cache : AlertType -> expiry
    log,                          \* the local log sink
    pages,                        \* the calls made to PagerDutyClient::send_alert
    handled,                      \* history: one record per alert processed by handle_alert
    alerterTask,                  \* handle_alert in progress: its await point, the cache lock
    actionQueue,                  \* the unbounded action channel
    dispatcher,                   \* position of the action handling task
    pauseCalls,                   \* history: one record per pause() invocation
    abandoned,                    \* pause() calls the dispatcher stopped waiting for
    commands,                     \* history: one record per action command received
    chain,                        \* the watch loop task followed: "ethereum" or "fuel"
    watch_config,                 \* the loop's copy of its watcher configuration
    account_address,              \* start_ethereum_watcher: is there a wallet address
    last_commit_check_block,      \* the watermark of the ethereum loop
    watchPc,                      \* the indicator the loop runs next
    lastStep,                     \* history: what the last indicator run did
    iteration,                    \* history: the current loop iteration
    senders,                      \* who still holds a sender of each channel
    tasks,                        \* the spawned tasks and the process: running or not
    budget,                       \* the sends each producer has left in this behaviour
    ethereumNode,                 \* the ethereum chain behind the provider: head, commit logs
    fuelNode,                     \* the fuel chain behind the provider, and FuelChain's cache
    contracts                     \* the bridge contracts: read_only, contract set or None

vars == <<now, alert_cache_expiry, allowed_alerting_start_time, alertQueue,
          alert_cache, log, pages, handled, alerterTask, actionQueue, dispatcher,
          pauseCalls, abandoned, commands, chain, watch_config, account_address,
          last_commit_check_block, watchPc, lastStep, iteration, senders, tasks,
          budget, contracts, ethereumNode, fuelNode>>

lifeVars == <<senders, tasks, budget, contracts>>

nodeVars == <<ethereumNode, fuelNode>>

watchVars == <<chain, watch_config, account_address, last_commit_check_block,
               watchPc, lastStep, iteration, nodeVars>>

alerterVars == <<alert_cache_expiry, allowed_alerting_start_time, alert_cache,
                 log, pages, handled, alerterTask>>

actionVars == <<actionQueue, dispatcher, pauseCalls, abandoned, commands>>

(***************************************************************************)
(* Bounds of the model.                                                    *)
(***************************************************************************)
MaxTime == 3        \* the alerter's clock stops ticking here
MaxAlerts == 3      \* alerts submitted to the alerter in one behaviour
MaxPending == 1     \* alerts waiting in the channel of the alerter at one time

(***************************************************************************)
(* alerter.rs: data                                                        *)
(***************************************************************************)
AlertLevel == {"None", "Info", "Warn", "Error"}

AlertType == {"FuelConnection", "FuelBlockProduction", "FuelPortalWithdraw",
              "FuelGatewayWithdraw", "EthereumChainWatching", "EthereumConnection",
              "EthereumBlockProduction", "EthereumAccountFunds",
              "EthereumInvalidStateCommit", "EthereumPortalDeposit",
              "EthereumPortalWithdrawal", "EthereumGatewayDeposit",
              "EthereumGatewayWithdrawal",
              "EthereumTryPauseContract", "EthereumSuccessPauseContract",
              "EthereumFailPauseContract", "EthereumTimeoutPauseContract",
              "EthereumActionsThreadFailed"}

AlertParams(text, level, alert_type) ==
    [text |-> text, level |-> level, alert_type |-> alert_type]

\* The configurations the alerter is constructed with (seconds).
ExpiryChoices == {0, 1, 2}  \* config.alert_cache_expiry
GraceChoices == {0, 1}      \* config.min_duration_from_start_to_err

\* The alerts the abstract producers of the alerter draw from: every level
\* of one category, and a second category to tell categories apart.
SubmitAlerts ==
    {AlertParams("Account funds alert", l, "EthereumAccountFunds") : l \in AlertLevel}
    \cup {AlertParams("Block production alert", "Warn", "EthereumBlockProduction")}

send_alert_front(queue, text, level, alert_type) ==
    <<AlertParams(text, level, alert_type)>> \o queue

\* send_alert: enqueue on the unbounded channel (never blocks).
send_alert(queue, text, level, alert_type) ==
    Append(queue, AlertParams(text, level, alert_type))

(***************************************************************************)
(* alerter.rs: handle_alert, piece by piece                                *)
(***************************************************************************)
RetainAll(cache, t) == cache

\* cache.retain(|_, &mut expiry| now < expiry)
Retain(cache, t) ==
    [k \in {c \in DOMAIN cache : t < cache[c]} |-> cache[k]]

IsFreshNoDedup(cache, alert_type, t) == TRUE

\* !cache.contains_key(type) || now >= *cache.get(type).unwrap()
IsFresh(cache, alert_type, t) ==
    alert_type \notin DOMAIN cache \/ t >= cache[alert_type]

\* cache.insert(type, now + alert_cache_expiry)
CacheInsert(cache, alert_type, expiry) ==
    [k \in DOMAIN cache \cup {alert_type} |->
        IF k = alert_type THEN expiry ELSE cache[k]]

SeverityFlat(level) ==
    CASE level = "Info" -> "info"
      [] level = "Warn" -> "critical"
      [] level = "Error" -> "critical"
      [] level = "None" -> "return"

\* let severity = match params.level { ... AlertLevel::None => return }
Severity(level) ==
    CASE level = "Info" -> "info"
      [] level = "Warn" -> "warning"
      [] level = "Error" -> "critical"
      [] level = "None" -> "return"

ShouldPageNoGrace(level, t, start) == level \in {"Warn", "Error"}

\* SystemTime::now() >= allowed_alerting_start_time && (level == Warn || level == Error)
ShouldPage(level, t, start) ==
    t >= start /\ level \in {"Warn", "Error"}

LogLinesAll(params) ==
    <<[kind |-> "alert", level |-> params.level, text |-> params.text]>>

\* match params.level { Info => log::info!, Warn => log::warn!, Error => log::error!, None => {} }
LogLines(params) ==
    IF params.level = "None"
    THEN <<>>
    ELSE <<[kind |-> "alert", level |-> params.level, text |-> params.text]>>

\* log::error!("Failed to send alert to PagerDuty: {}", e)
TransportErrorLine ==
    [kind |-> "transport_error", level |-> "Error",
     text |-> "Failed to send alert to PagerDuty"]

CacheAfterSliding(kept, fresh, alert_type, t, expiry) ==
    CacheInsert(kept, alert_type, t + expiry)

\* The insert is inside the branch of the freshness test: a duplicate leaves
\* the entry as it is.
CacheAfter(kept, fresh, alert_type, t, expiry) ==
    IF fresh THEN CacheInsert(kept, alert_type, t + expiry) ELSE kept

HandleAlertResultNoneSkipsCache(params, cache, t, expiry, start, sendOk) ==
    LET kept == Retain(cache, t)
        fresh == IsFresh(kept, params.alert_type, t)
        cache2 == IF params.level = "None" THEN kept
                  ELSE CacheAfter(kept, fresh, params.alert_type, t, expiry)
        returned == fresh /\ Severity(params.level) = "return"
        paged == fresh /\ ~returned /\ ShouldPage(params.level, t, start)
    IN [cache |-> cache2,
        pages |-> IF paged
                  THEN <<[severity |-> Severity(params.level), summary |-> params.text]>>
                  ELSE <<>>,
        log |-> (IF paged /\ ~sendOk THEN <<TransportErrorLine>> ELSE <<>>)
                \o (IF returned THEN <<>> ELSE LogLines(params))]

\* A handle_alert that opens the entry of the category only for an alert it
\* forwards to the paging transport.
HandleAlertResultCacheWhenPaged(params, cache, t, expiry, start, sendOk) ==
    LET kept == Retain(cache, t)
        fresh == IsFresh(kept, params.alert_type, t)
        returned == fresh /\ Severity(params.level) = "return"
        paged == fresh /\ ~returned /\ ShouldPage(params.level, t, start)
        cache2 == IF paged THEN CacheAfter(kept, fresh, params.alert_type, t, expiry)
                  ELSE kept
    IN [cache |-> cache2,
        pages |-> IF paged
                  THEN <<[severity |-> Severity(params.level), summary |-> params.text]>>
                  ELSE <<>>,
        log |-> (IF paged /\ ~sendOk THEN <<TransportErrorLine>> ELSE <<>>)
                \o (IF returned THEN <<>> ELSE LogLines(params))]

HandleAlertResultFailFast(params, cache, t, expiry, start, sendOk) ==
    LET kept == Retain(cache, t)
        fresh == IsFresh(kept, params.alert_type, t)
        cache2 == CacheAfter(kept, fresh, params.alert_type, t, expiry)
        returned == fresh /\ Severity(params.level) = "return"
        paged == fresh /\ ~returned /\ ShouldPage(params.level, t, start)
    IN [cache |-> cache2,
        pages |-> IF paged
                  THEN <<[severity |-> Severity(params.level), summary |-> params.text]>>
                  ELSE <<>>,
        log |-> IF paged /\ ~sendOk THEN <<TransportErrorLine>>
                ELSE IF returned THEN <<>> ELSE LogLines(params)]

\* The result of handle_alert on one alert: sendOk is the outcome of the
\* paging transport, consulted only when the alert is forwarded.
HandleAlertResult(params, cache, t, expiry, start, sendOk) ==
    LET kept == Retain(cache, t)
        fresh == IsFresh(kept, params.alert_type, t)
        cache2 == CacheAfter(kept, fresh, params.alert_type, t, expiry)
        returned == fresh /\ Severity(params.level) = "return"
        paged == fresh /\ ~returned /\ ShouldPage(params.level, t, start)
    IN [cache |-> cache2,
        pages |-> IF paged
                  THEN <<[severity |-> Severity(params.level), summary |-> params.text]>>
                  ELSE <<>>,
        log |-> (IF paged /\ ~sendOk THEN <<TransportErrorLine>> ELSE <<>>)
                \o (IF returned THEN <<>> ELSE LogLines(params))]

(***************************************************************************)
(* Alerter: state machine                                                  *)
(***************************************************************************)
\* No indicator has run.
\* The alert handling task between two alerts: it waits in rx.recv() and
\* the guard of the cache mutex is dropped.
NoAlert == [pc |-> "recv", lock |-> FALSE,
            params |-> [text |-> "", level |-> "None", alert_type |-> "EthereumChainWatching"],
            at |-> 0]

NoStep == [indicator |-> "none", probes |-> <<>>, emits |-> <<>>,
           resp |-> [ok |-> TRUE, value |-> 0, err |-> ""],
           height |-> "unprobed", failed |-> {}, verdicts |-> <<>>,
           amounts |-> <<>>]

\* The holders of a sender of each channel once run() has wired the
\* components: the structs owned by run(), the clone moved into the
\* dispatcher task, the clones moved into the two watch loops.
AllSenders ==
    [alerts |-> {"run", "dispatcher", "ethereum", "fuel"},
     actions |-> {"run", "ethereum", "fuel"}]

\* Every sender is held and every task runs: the state after run() has
\* started the components.
Wired ==
    /\ senders = AllSenders
    /\ tasks = [alerter |-> "running", dispatcher |-> "running", process |-> "running"]
    /\ budget = [ethereum |-> 0, fuel |-> 0]

Running(task) == tasks.process = "running" /\ tasks[task] = "running"

\* The contracts as run() hands them over: built with a wallet key, and
\* initialize() has set the contract of the gateway and of the portal.
Deployed == contracts = [read_only |-> FALSE, gateway |-> TRUE, portal |-> TRUE]

\* The watch loops are not part of this specification.
\* The chains are not looked at: the answers of the probes are inputs.
NodesIdle ==
    /\ ethereumNode = [head |-> 0, commits |-> {}, pc |-> "idle", initial |-> 0,
                       queried |-> <<>>, at |-> 0, gap |-> 0, returned |-> {}]
    /\ fuelNode = [blocks |-> <<>>, asset_withdrawal_cache |-> <<>>, calls |-> <<>>]

WatchIdle ==
    /\ NodesIdle
    /\ chain = "none"
    /\ watch_config = <<>>
    /\ account_address = FALSE
    /\ last_commit_check_block = 0
    /\ watchPc = "none"
    /\ lastStep = NoStep
    /\ iteration = [n |-> 0, startWatermark |-> 0, height |-> "unprobed",
                    failedBefore |-> FALSE, failedLast |-> FALSE]

ActionsIdle ==
    /\ actionQueue = <<>>
    /\ dispatcher = [pc |-> "recv", cmd |-> 0, targets |-> <<>>, alert_level |-> "None"]
    /\ pauseCalls = <<>>
    /\ abandoned = {}
    /\ commands = <<>>

\* WatchtowerAlerter::new
InitAlerter ==
    /\ now = 0
    /\ alert_cache_expiry \in ExpiryChoices
    /\ allowed_alerting_start_time \in {0 + d : d \in GraceChoices}
    /\ alertQueue = <<>>
    /\ alert_cache = <<>>
    /\ log = <<>>
    /\ pages = <<>>
    /\ handled = <<>>
    /\ alerterTask = NoAlert
    /\ ActionsIdle
    /\ WatchIdle
    /\ Wired
    /\ Deployed

Tick ==
    /\ now < MaxTime
    /\ now' = now + 1
    /\ UNCHANGED <<lifeVars, alertQueue, alerterVars, actionVars, watchVars>>

\* A producer calls send_alert(sender, text, level, alert_type).
SubmitAlert ==
    /\ senders.alerts # {}
    /\ Len(alertQueue) + Len(handled) + (IF alerterTask.pc = "sending" THEN 1 ELSE 0)
          < MaxAlerts
    /\ Len(alertQueue) < MaxPending
    /\ \E a \in SubmitAlerts :
          alertQueue' = send_alert(alertQueue, a.text, a.level, a.alert_type)
    /\ UNCHANGED <<lifeVars, now, alerterVars, actionVars, watchVars>>

\* One turn of the consumer loop: rx.recv() then handle_alert(params, ...).
HandleAlert ==
    /\ Running("alerter")
    /\ alertQueue # <<>>
    /\ \E sendOk \in BOOLEAN :
          LET params == Head(alertQueue)
              r == HandleAlertResult(params, alert_cache, now, alert_cache_expiry,
                                     allowed_alerting_start_time, sendOk)
          IN /\ (r.pages = <<>> => sendOk)
             /\ alert_cache' = r.cache
             /\ pages' = pages \o r.pages
             /\ log' = log \o r.log
             /\ handled' = Append(handled,
                    [params |-> params, at |-> now,
                     paged |-> Len(r.pages),
                     logged |-> Len(SelectSeq(r.log, LAMBDA l : l.kind = "alert")),
                     transport |-> IF r.pages = <<>> THEN "none"
                                   ELSE IF sendOk THEN "ok" ELSE "failed",
                     cache |-> r.cache])
    /\ alertQueue' = Tail(alertQueue)
    /\ UNCHANGED <<lifeVars, now, alert_cache_expiry, allowed_alerting_start_time, actionVars,
                   watchVars, alerterTask>>

NextAlerter == Tick \/ SubmitAlert \/ HandleAlert

SpecAlerter == InitAlerter /\ [][NextAlerter]_vars

(***************************************************************************)
(* Alerter: handle_alert at its await point. `let mut cache =               *)
(* cache.lock().await` takes the guard of the cache mutex at the top of    *)
(* handle_alert; the guard is a local of the function and is dropped when  *)
(* the function returns. The one await after it is                         *)
(* pagerduty_client.send_alert(..).await.                                  *)
(***************************************************************************)
\* rx.recv() and handle_alert up to the call of the paging transport, or
\* to its end when the alert is not forwarded.
BeginHandleAlert ==
    /\ Running("alerter")
    /\ alerterTask.pc = "recv"
    /\ alertQueue # <<>>
    /\ LET params == Head(alertQueue)
           r == HandleAlertResult(params, alert_cache, now, alert_cache_expiry,
                                  allowed_alerting_start_time, TRUE)
       IN /\ alert_cache' = r.cache
          /\ IF r.pages # <<>>
             THEN /\ alerterTask' = [pc |-> "sending", lock |-> TRUE,
                                     params |-> params, at |-> now]
                  /\ pages' = pages \o r.pages
                  /\ UNCHANGED <<log, handled>>
             ELSE /\ log' = log \o r.log
                  /\ handled' = Append(handled,
                         [params |-> params, at |-> now, paged |-> 0,
                          logged |-> Len(SelectSeq(r.log, LAMBDA l : l.kind = "alert")),
                          transport |-> "none", cache |-> r.cache])
                  /\ UNCHANGED <<pages, alerterTask>>
    /\ alertQueue' = Tail(alertQueue)
    /\ UNCHANGED <<lifeVars, now, alert_cache_expiry, allowed_alerting_start_time, actionVars,
                   watchVars>>

\* The paging transport returns: the error is logged, the alert is logged,
\* handle_alert returns and its guard is dropped.
FinishHandleAlert ==
    /\ Running("alerter")
    /\ alerterTask.pc = "sending"
    /\ \E sendOk \in BOOLEAN :
          LET params == alerterTask.params
          IN /\ log' = log \o (IF sendOk THEN <<>> ELSE <<TransportErrorLine>>)
                           \o LogLines(params)
             /\ handled' = Append(handled,
                    [params |-> params, at |-> alerterTask.at, paged |-> 1,
                     logged |-> Len(SelectSeq(LogLines(params), LAMBDA l : l.kind = "alert")),
                     transport |-> IF sendOk THEN "ok" ELSE "failed",
                     cache |-> alert_cache])
    /\ alerterTask' = NoAlert
    /\ UNCHANGED <<lifeVars, now, alert_cache_expiry, allowed_alerting_start_time, alertQueue,
                   alert_cache, pages, actionVars, watchVars>>

NextRouter == Tick \/ SubmitAlert \/ BeginHandleAlert \/ FinishHandleAlert

SpecRouter == InitAlerter /\ [][NextRouter]_vars

(***************************************************************************)
(* Alerter: claims                                                         *)
(***************************************************************************)
Pageable(i) ==
    /\ handled[i].params.level \in {"Warn", "Error"}
    /\ handled[i].at >= allowed_alerting_start_time

\* Two consecutive alerts of one category, both Warn/Error, both processed
\* once the startup grace period is over.
CategoryPairs ==
    {p \in (DOMAIN handled) \X (DOMAIN handled) :
        /\ p[1] < p[2]
        /\ handled[p[1]].params.alert_type = handled[p[2]].params.alert_type
        /\ \A k \in DOMAIN handled :
              (p[1] < k /\ k < p[2]) =>
                  handled[k].params.alert_type # handled[p[1]].params.alert_type
        /\ Pageable(p[1])
        /\ Pageable(p[2])}

\* No alert of the same category was processed less than the TTL before alert i.
NotPrecededWithinTTL(i) ==
    \A k \in DOMAIN handled :
        (k < i /\ handled[k].params.alert_type = handled[i].params.alert_type)
            => handled[i].at - handled[k].at >= alert_cache_expiry

PairOutcome(p) ==
    LET a == handled[p[1]]
        b == handled[p[2]]
    IN /\ (b.at - a.at < alert_cache_expiry =>
              (a.paged + b.paged = 1 /\ a.logged + b.logged = 2))
       /\ (b.at - a.at > alert_cache_expiry => a.paged + b.paged = 2)

\* C1 as stated: after the grace period, two Warn/Error alerts of category C
\* processed less than T apart give exactly one page and two log entries, and
\* two processed more than T apart give two pages.
C1_Original == \A p \in CategoryPairs : PairOutcome(p)

\* C1 amended: the same, provided no alert of category C was processed less
\* than T before the first of the two (so the first one is not itself
\* suppressed by an entry that is still live).
C1_DedupWindow ==
    \A p \in CategoryPairs : NotPrecededWithinTTL(p[1]) => PairOutcome(p)

C1_Witness ==
    \E p \in CategoryPairs :
        /\ NotPrecededWithinTTL(p[1])
        /\ handled[p[2]].at - handled[p[1]].at < alert_cache_expiry
        /\ handled[p[1]].paged = 1
        /\ handled[p[2]].paged = 0

\* C2: a Warn or Error alert processed before allowed_alerting_start_time is
\* never forwarded to the paging transport, and is written to the local log.
C2_StartupGrace ==
    \A i \in DOMAIN handled :
        (handled[i].params.level \in {"Warn", "Error"}
            /\ handled[i].at < allowed_alerting_start_time)
        => (handled[i].paged = 0 /\ handled[i].logged = 1)

\* A Warn/Error alert processed in the grace period that opened a fresh entry.
C2_Witness ==
    \E i \in DOMAIN handled :
        /\ handled[i].params.level \in {"Warn", "Error"}
        /\ handled[i].at < allowed_alerting_start_time
        /\ handled[i].cache[handled[i].params.alert_type]
              = handled[i].at + alert_cache_expiry
        /\ handled[i].logged = 1

HandlingLevel(level) ==
    /\ alertQueue # <<>>
    /\ Head(alertQueue).level = level
    /\ handled' # handled

\* C3: processing an alert of level None writes nothing to the local log,
\* sends nothing to the paging transport and puts no command on the action queue.
C3_NoneIsInert ==
    [][HandlingLevel("None") =>
          (log' = log /\ pages' = pages /\ actionQueue' = actionQueue)]_vars

\* A None alert was processed while an entry of its category was live, and
\* another one opened an entry.
C3_Witness ==
    \E i, j \in DOMAIN handled :
        /\ i < j
        /\ handled[i].params.level = "None"
        /\ handled[j].params.level = "None"
        /\ handled[i].params.alert_type = handled[j].params.alert_type
        /\ handled[j].at < handled[i].cache[handled[i].params.alert_type]

\* C10: every call of the paging transport is made for a Warn alert with
\* severity "warning" or for an Error alert with severity "critical"; an Info
\* alert makes no call.
C10_PagedSeverity ==
    [][pages' # pages =>
          /\ alertQueue # <<>>
          /\ Head(alertQueue).level \in {"Warn", "Error"}
          /\ pages' = Append(pages,
                [severity |-> IF Head(alertQueue).level = "Warn"
                              THEN "warning" ELSE "critical",
                 summary |-> Head(alertQueue).text])]_vars

\* A warning and a critical page were sent, and a fresh Info alert processed
\* after the grace period was not paged.
C10_Witness ==
    /\ \E k \in DOMAIN pages : pages[k].severity = "warning"
    /\ \E k \in DOMAIN pages : pages[k].severity = "critical"
    /\ \E i \in DOMAIN handled :
          /\ handled[i].params.level = "Info"
          /\ handled[i].at >= allowed_alerting_start_time
          /\ handled[i].cache[handled[i].params.alert_type]
                = handled[i].at + alert_cache_expiry
          /\ handled[i].paged = 0

SameCategory(i, j) == handled[i].params.alert_type = handled[j].params.alert_type

\* Alert i is the first seen of a window of its category: every earlier
\* alert of the category that opened a window did so at least the TTL before.
RECURSIVE Opens(_)
Opens(i) ==
    \A j \in 1..(i - 1) :
        (SameCategory(i, j) /\ Opens(j))
            => handled[i].at >= handled[j].at + alert_cache_expiry

\* The first-seen alert of the window alert i falls in.
Governing(i) ==
    CHOOSE g \in 1..i :
        /\ SameCategory(i, g)
        /\ Opens(g)
        /\ \A k \in (g + 1)..i : ~(SameCategory(i, k) /\ Opens(k))

\* C12: the window is fixed. An alert that is a duplicate within the TTL of
\* the first-seen alert of its category is written to the local log at its
\* level (a None alert has no log line), is never forwarded to the paging
\* transport, and leaves the expiry of the entry where the first-seen alert
\* put it: at every alert the entry expires alert_cache_expiry after the
\* first-seen alert of the window, however many duplicates came in between.
C12_FixedWindow ==
    \A i \in DOMAIN handled :
        /\ handled[i].cache[handled[i].params.alert_type]
              = handled[Governing(i)].at + alert_cache_expiry
        /\ ~Opens(i) =>
              /\ handled[i].paged = 0
              /\ handled[i].logged = IF handled[i].params.level = "None" THEN 0 ELSE 1

\* A Warn alert was a duplicate one second after the first-seen alert, and a
\* third alert of the category opened a new window TTL after the first-seen
\* one, less than TTL after the duplicate.
C12_Witness ==
    \E i, j, k \in DOMAIN handled :
        /\ i < j /\ j < k
        /\ SameCategory(i, j) /\ SameCategory(j, k)
        /\ Opens(i) /\ ~Opens(j) /\ Opens(k)
        /\ handled[j].at > handled[i].at
        /\ handled[j].params.level = "Warn"
        /\ handled[j].logged = 1
        /\ handled[k].at < handled[j].at + alert_cache_expiry
        /\ handled[k].paged = 1

\* The cache changes only when an alert is processed: no sweep removes an
\* entry in between.
CacheChangesInHandleAlert ==
    [][alert_cache' # alert_cache
          => /\ Len(handled') = Len(handled) + 1
             /\ alert_cache' = handled'[Len(handled')].cache]_vars

\* C24 as stated: after an alert of any category and level was processed at
\* time now, every entry of the cache has an expiry later than now, and
\* entries are removed only when an alert is processed.
C24_Original ==
    /\ [](\A i \in DOMAIN handled :
            \A c \in DOMAIN handled[i].cache : handled[i].cache[c] > handled[i].at)
    /\ CacheChangesInHandleAlert

\* C24 amended: the same for alert_cache_expiry > 0. With an
\* alert_cache_expiry of 0 the entry the alert itself inserts expires at now:
\* every entry of another category expires later than now, and no entry
\* expires before now.
C24_LazyPurge ==
    /\ [](\A i \in DOMAIN handled :
            \A c \in DOMAIN handled[i].cache :
               /\ handled[i].cache[c] >= handled[i].at
               /\ (alert_cache_expiry > 0 \/ c # handled[i].params.alert_type)
                     => handled[i].cache[c] > handled[i].at)
    /\ CacheChangesInHandleAlert

\* The entry of a category stayed in the cache after its expiry, while the
\* clock went on, and was dropped when an alert of another category was
\* processed.
C24_Witness ==
    \E i \in DOMAIN handled :
        /\ i > 1
        /\ alert_cache_expiry > 0
        /\ \E c \in DOMAIN handled[i - 1].cache :
              /\ c \notin DOMAIN handled[i].cache
              /\ c # handled[i].params.alert_type
              /\ handled[i].at > handled[i - 1].cache[c]

\* The categories that have an entry in the cache after alert i, and those
\* whose entry is live then.
Cached(i) == DOMAIN handled[i].cache

Live(i) == {c \in Cached(i) : handled[i].cache[c] > handled[i].at}

\* C25 as stated: after an alert of any level was processed, the cache holds
\* a live entry for the category of the alert.
C25_Original ==
    \A i \in DOMAIN handled : handled[i].params.alert_type \in Live(i)

\* C25 amended: after an alert of any level was processed, the cache holds
\* an entry for the category of the alert, which is live if
\* alert_cache_expiry > 0 and expires at now if it is 0; the entries of the
\* cache are those of the categories of the alerts processed so far, one for
\* each of them at most.
C25_EntryPerCategory ==
    \A i \in DOMAIN handled :
        /\ handled[i].params.alert_type \in Cached(i)
        /\ alert_cache_expiry > 0 => handled[i].params.alert_type \in Live(i)
        /\ alert_cache_expiry = 0 =>
              handled[i].cache[handled[i].params.alert_type] = handled[i].at
        /\ Cached(i) \subseteq {handled[k].params.alert_type : k \in 1..i}
        /\ Cardinality(Cached(i)) <= Cardinality(AlertType)

\* An alert of level None opened the entry of its category, and an alert of
\* another category was processed while that entry was live: the cache held
\* one entry for each.
C25_Witness ==
    \E i \in DOMAIN handled :
        /\ i > 1
        /\ handled[i - 1].params.level = "None"
        /\ handled[i - 1].cache[handled[i - 1].params.alert_type]
              = handled[i - 1].at + alert_cache_expiry
        /\ handled[i].params.alert_type # handled[i - 1].params.alert_type
        /\ Live(i) = {handled[i].params.alert_type, handled[i - 1].params.alert_type}

\* C32: the dedup map is changed by the steps of the alert handling task
\* only, and the guard of its mutex is not held while the call of the
\* paging transport is in progress.
\* handle_alert holds the guard from its first statement to its return, the
\* await of pagerduty_client.send_alert included.
C32_LockNotHeldAcrossSend ==
    /\ [][alert_cache' # alert_cache => BeginHandleAlert]_vars
    /\ [](alerterTask.pc = "sending" => ~alerterTask.lock)

\* The map is changed by the first step of handle_alert and by no other step
\* of the model, and the guard is not held between two alerts.
C32_CacheOwnedByConsumer ==
    /\ [][alert_cache' # alert_cache => BeginHandleAlert]_vars
    /\ [](alerterTask.pc = "recv" => ~alerterTask.lock)

\* Alert i is not one handle_alert forwards: its level is Info or None, or it
\* is processed in the startup grace period.
NotForwardable(i) ==
    \/ handled[i].params.level \in {"Info", "None"}
    \/ handled[i].at < allowed_alerting_start_time

\* C35: the first alert of a window opens the window whether or not it is
\* paged. When the first-seen alert of a category has level Info or None, or
\* is processed before allowed_alerting_start_time, a Warn or Error alert of
\* the category processed less than alert_cache_expiry after it is not
\* forwarded to the paging transport, also when the grace period is over by
\* then.
C35_UnpagedAlertOpensWindow ==
    \A i \in DOMAIN handled, j \in DOMAIN handled :
        (/\ i < j
         /\ SameCategory(i, j)
         /\ Opens(i)
         /\ NotForwardable(i)
         /\ handled[i].paged = 0
         /\ handled[j].params.level \in {"Warn", "Error"}
         /\ handled[j].at - handled[i].at < alert_cache_expiry)
        => handled[j].paged = 0

\* A Warn alert processed in the grace period opened the window of its
\* category, and an Error or Warn alert of the category processed after the
\* grace period, inside the window, was not paged.
C35_Witness ==
    \E i \in DOMAIN handled, j \in DOMAIN handled :
        /\ i < j
        /\ SameCategory(i, j)
        /\ Opens(i)
        /\ handled[i].params.level = "Warn"
        /\ handled[i].at < allowed_alerting_start_time
        /\ handled[j].params.level \in {"Warn", "Error"}
        /\ handled[j].at >= allowed_alerting_start_time
        /\ handled[j].at - handled[i].at < alert_cache_expiry
        /\ handled[j].paged = 0

\* The same after a first-seen alert of level None.
C35_WitnessNone ==
    \E i \in DOMAIN handled, j \in DOMAIN handled :
        /\ i < j
        /\ SameCategory(i, j)
        /\ Opens(i)
        /\ handled[i].params.level = "None"
        /\ handled[i].at >= allowed_alerting_start_time
        /\ handled[j].params.level \in {"Warn", "Error"}
        /\ handled[j].at - handled[i].at < alert_cache_expiry
        /\ handled[j].paged = 0

FailedTransport == {i \in DOMAIN handled : handled[i].transport = "failed"}

\* C13: a failure of the paging transport is written to the local log and
\* goes no further: the alert itself is still logged (its line follows the
\* line of the failure), and the consumer stays ready to process every alert
\* that is on the channel after it.
C13_TransportFailureSwallowed ==
    /\ \A i \in FailedTransport : handled[i].logged = 1
    /\ Cardinality({k \in DOMAIN log : log[k] = TransportErrorLine})
          = Cardinality(FailedTransport)
    /\ \A k \in DOMAIN log :
          log[k] = TransportErrorLine =>
              /\ k < Len(log)
              /\ log[k + 1].kind = "alert"
              /\ log[k + 1].level \in {"Warn", "Error"}
    /\ (FailedTransport # {} /\ alertQueue # <<>>) => ENABLED HandleAlert

\* The transport failed for one alert, and an alert processed after it was
\* forwarded.
C13_Witness ==
    \E i, j \in DOMAIN handled :
        /\ i < j
        /\ handled[i].transport = "failed"
        /\ handled[j].transport = "ok"

(***************************************************************************)
(* ethereum_actions.rs: data                                               *)
(***************************************************************************)
MaxActions == 1     \* action commands submitted to the dispatcher in one behaviour

EthereumAction == {"None", "PauseState", "PauseGateway", "PausePortal", "PauseAll"}

\* Option<AlertLevel>::None, as passed by a caller of send_action
NoLevel == "NoLevel"

ActionParams(action, alert_level) == [action |-> action, alert_level |-> alert_level]

\* A send_action that does not enqueue a command the channel already holds.
send_action_once(queue, action, opt_level) ==
    LET params == ActionParams(action, IF opt_level = NoLevel THEN "Info" ELSE opt_level)
    IN IF \E i \in DOMAIN queue : queue[i] = params THEN queue ELSE Append(queue, params)

\* send_action: alert_level.unwrap_or(AlertLevel::Info), then enqueue.
send_action(queue, action, opt_level) ==
    Append(queue, ActionParams(action, IF opt_level = NoLevel THEN "Info" ELSE opt_level))

\* The escalation levels the producers of the dispatcher draw from.
SubmitLevels == {NoLevel, "Error"}

\* let timeout_duration = Duration::from_secs(30)
PauseTimeout == 30

\* What a pause() call does: whether it resolves, the time it takes to, and
\* its result.
PauseBehaviours ==
    {[resolves |-> TRUE, latency |-> 1, result |-> "ok"],
     [resolves |-> TRUE, latency |-> 1, result |-> "err"],
     [resolves |-> TRUE, latency |-> PauseTimeout, result |-> "ok"],
     [resolves |-> TRUE, latency |-> PauseTimeout + 1, result |-> "err"],
     [resolves |-> FALSE, latency |-> 0, result |-> "none"]}

\* A pause() call that is still awaited.
PendingBehaviour == [resolves |-> FALSE, latency |-> 0, result |-> "pending"]

\* The contracts a dispatcher can be given: built without a wallet key
\* (read_only) or with one, and the gateway and the portal with their
\* contract set by initialize() or still None. The state contract has its
\* contract from new().
ContractStates ==
    [read_only : BOOLEAN, gateway : BOOLEAN, portal : BOOLEAN]

\* The outcomes of pause() that are an Err.
PauseErrors == {"err", "not_configured", "not_initialized"}

\* A pause() that goes through to the network whatever the contract is.
pauseUnguarded(contract, rpc) == [behaviour |-> rpc, network |-> TRUE]

\* StateContract::pause, GatewayContract::pause, PortalContract::pause: rpc
\* is what contract.pause().call() does if it is made; network says
\* whether it is made.
pause(contract, rpc) ==
    IF contracts.read_only
    THEN [behaviour |-> [resolves |-> TRUE, latency |-> 0, result |-> "not_configured"],
          network |-> FALSE]
    ELSE IF contract # "state" /\ ~contracts[contract]
    THEN [behaviour |-> [resolves |-> TRUE, latency |-> 0, result |-> "not_initialized"],
          network |-> FALSE]
    ELSE [behaviour |-> rpc, network |-> TRUE]

TargetsGatewayFirst(action) ==
    CASE action = "PauseState" -> <<"state">>
      [] action = "PauseGateway" -> <<"gateway">>
      [] action = "PausePortal" -> <<"portal">>
      [] action = "PauseAll" -> <<"gateway", "state", "portal">>
      [] action = "None" -> <<>>

TargetsNonePausesState(action) ==
    CASE action = "PauseState" -> <<"state">>
      [] action = "PauseGateway" -> <<"gateway">>
      [] action = "PausePortal" -> <<"portal">>
      [] action = "PauseAll" -> <<"state", "gateway", "portal">>
      [] action = "None" -> <<"state">>

\* handle_action: the contracts whose pause() the command invokes, in order.
Targets(action) ==
    CASE action = "PauseState" -> <<"state">>
      [] action = "PauseGateway" -> <<"gateway">>
      [] action = "PausePortal" -> <<"portal">>
      [] action = "PauseAll" -> <<"state", "gateway", "portal">>
      [] action = "None" -> <<>>

RemainingRetryOnFailure(targets, outcome) ==
    IF outcome = "ok" THEN Tail(targets) ELSE targets

RemainingStopOnFailure(targets, outcome) ==
    IF outcome = "ok" THEN Tail(targets) ELSE <<>>

\* handle_action awaits the pause_contract calls one after the other and
\* looks at no result: what is left to pause after one attempt.
Remaining(targets, outcome) == Tail(targets)

\* match timeout(timeout_duration, pause_future).await: the arms the call can
\* take. A future that resolves at the very instant of the deadline can win
\* or lose the race.
\* An await of the pause future without the timeout: it ends when the call
\* resolves, and not at all when it does not.
TimeoutOutcomesUnbounded(b) ==
    IF ~b.resolves THEN {} ELSE {b.result}

TimeoutOutcomes(b) ==
    IF ~b.resolves THEN {"timeout"}
    ELSE IF b.latency < PauseTimeout THEN {b.result}
    ELSE IF b.latency > PauseTimeout THEN {"timeout"}
    ELSE {b.result, "timeout"}

\* e.to_string() of the error a contract's pause() returns
PauseErrorText(contract) == <<"Failed to pause ", contract, " contract">>

\* e.to_string() for each Err of pause()
ErrorText(contract, outcome) ==
    CASE outcome = "err" -> PauseErrorText(contract)
      [] outcome = "not_configured" -> <<"Ethereum account not configured.">>
      [] outcome = "not_initialized" -> <<"Contract not initialized">>

\* pause_contract: the alert sent before the pause is awaited
TryAlert(contract) ==
    AlertParams(<<"Pausing ", contract, " contract.">>, "Info", "EthereumTryPauseContract")

OutcomeAlertAtInfo(contract, outcome, alert_level) ==
    CASE outcome = "ok" ->
            AlertParams(<<"Successfully paused ", contract, " contract.">>,
                        "Info", "EthereumSuccessPauseContract")
      [] outcome \in PauseErrors ->
            AlertParams(ErrorText(contract, outcome), alert_level,
                        "EthereumFailPauseContract")
      [] outcome = "timeout" ->
            AlertParams(<<"Timeout while pausing ", contract, " contract.">>,
                        "Info", "EthereumTimeoutPauseContract")

OutcomeAlertSuccessAtLevel(contract, outcome, alert_level) ==
    CASE outcome = "ok" ->
            AlertParams(<<"Successfully paused ", contract, " contract.">>,
                        alert_level, "EthereumSuccessPauseContract")
      [] outcome \in PauseErrors ->
            AlertParams(ErrorText(contract, outcome), alert_level,
                        "EthereumFailPauseContract")
      [] outcome = "timeout" ->
            AlertParams(<<"Timeout while pausing ", contract, " contract.">>,
                        alert_level, "EthereumTimeoutPauseContract")

OutcomeAlertFailAtInfo(contract, outcome, alert_level) ==
    CASE outcome = "ok" ->
            AlertParams(<<"Successfully paused ", contract, " contract.">>,
                        "Info", "EthereumSuccessPauseContract")
      [] outcome \in PauseErrors ->
            AlertParams(ErrorText(contract, outcome), "Info",
                        "EthereumFailPauseContract")
      [] outcome = "timeout" ->
            AlertParams(<<"Timeout while pausing ", contract, " contract.">>,
                        alert_level, "EthereumTimeoutPauseContract")

\* pause_contract: the alert sent by the arm taken
OutcomeAlert(contract, outcome, alert_level) ==
    CASE outcome = "ok" ->
            AlertParams(<<"Successfully paused ", contract, " contract.">>,
                        "Info", "EthereumSuccessPauseContract")
      [] outcome \in PauseErrors ->
            AlertParams(ErrorText(contract, outcome), alert_level,
                        "EthereumFailPauseContract")
      [] outcome = "timeout" ->
            AlertParams(<<"Timeout while pausing ", contract, " contract.">>,
                        alert_level, "EthereumTimeoutPauseContract")

\* The future of an abandoned pause() is dropped by timeout(): nothing of
\* pause_contract runs when the call resolves later.
LateResultAlerts(contract, result, alert_level) == <<>>

(***************************************************************************)
(* Dispatcher: state machine                                               *)
(***************************************************************************)
AlerterIdle ==
    /\ alert_cache_expiry = 1
    /\ allowed_alerting_start_time = 0
    /\ alert_cache = <<>>
    /\ log = <<>>
    /\ pages = <<>>
    /\ handled = <<>>
    /\ alerterTask = NoAlert

\* WatchtowerEthereumActions::new, start_action_handling_thread
InitActions ==
    /\ now = 0
    /\ alertQueue = <<>>
    /\ AlerterIdle
    /\ ActionsIdle
    /\ WatchIdle
    /\ Wired
    /\ contracts \in ContractStates

\* A producer calls send_action(sender, action, alert_level).
SubmitAction ==
    /\ senders.actions # {}
    /\ Len(actionQueue) + Len(commands) < MaxActions
    /\ \E action \in EthereumAction, opt_level \in SubmitLevels :
          actionQueue' = send_action(actionQueue, action, opt_level)
    /\ UNCHANGED <<lifeVars, now, alertQueue, alerterVars, dispatcher, pauseCalls, abandoned,
                   commands, watchVars>>

\* pause_contract up to its await: send the "Pausing" alert, invoke pause().
BeginPause(cmd, contract, alert_level, queue, calls) ==
    [queue |-> Append(queue, TryAlert(contract)),
     calls |-> Append(calls, [cmd |-> cmd, contract |-> contract,
                              alert_level |-> alert_level, at |-> now,
                              from |-> Len(queue), upto |-> Len(queue) + 1,
                              behaviour |-> PendingBehaviour, outcome |-> "pending",
                              elapsed |-> 0, network |-> FALSE])]

\* rx.recv() returns a command; handle_action runs up to its first await.
RecvAction ==
    /\ Running("dispatcher")
    /\ dispatcher.pc = "recv"
    /\ actionQueue # <<>>
    /\ LET params == Head(actionQueue)
           cmd == Len(commands) + 1
           targets == Targets(params.action)
       IN IF targets = <<>>
          THEN /\ commands' = Append(commands,
                      [action |-> params.action, alert_level |-> params.alert_level,
                       from |-> Len(alertQueue), upto |-> Len(alertQueue), done |-> TRUE])
               /\ UNCHANGED <<dispatcher, pauseCalls, alertQueue>>
          ELSE LET b == BeginPause(cmd, Head(targets), params.alert_level,
                                   alertQueue, pauseCalls)
               IN /\ commands' = Append(commands,
                         [action |-> params.action, alert_level |-> params.alert_level,
                          from |-> Len(alertQueue), upto |-> Len(alertQueue) + 1,
                          done |-> FALSE])
                  /\ dispatcher' = [pc |-> "await", cmd |-> cmd, targets |-> targets,
                                    alert_level |-> params.alert_level]
                  /\ alertQueue' = b.queue
                  /\ pauseCalls' = b.calls
    /\ actionQueue' = Tail(actionQueue)
    /\ UNCHANGED <<lifeVars, now, alerterVars, abandoned, watchVars>>

\* The await of timeout(30 s, pause_future) ends: the arm's alert is sent,
\* then handle_action goes on to its next pause_contract, or returns.
FinishPause ==
    /\ Running("dispatcher")
    /\ dispatcher.pc = "await"
    /\ \E rpc \in PauseBehaviours :
       \E outcome \in TimeoutOutcomes(pause(Head(dispatcher.targets), rpc).behaviour) :
          LET k == Len(pauseCalls)
              contract == Head(dispatcher.targets)
              called == pause(contract, rpc)
              b == called.behaviour
              elapsed == IF outcome = "timeout" THEN PauseTimeout ELSE b.latency
              q1 == Append(alertQueue,
                           OutcomeAlert(contract, outcome, dispatcher.alert_level))
              done1 == [pauseCalls EXCEPT ![k] =
                           [@ EXCEPT !.behaviour = b, !.outcome = outcome,
                                     !.elapsed = elapsed, !.upto = Len(q1),
                                     !.network = called.network]]
              rest == Remaining(dispatcher.targets, outcome)
          IN /\ now' = now + elapsed
             /\ abandoned' = IF outcome = "timeout" /\ b.resolves
                             THEN abandoned \cup {k} ELSE abandoned
             /\ IF rest = <<>>
                THEN /\ alertQueue' = q1
                     /\ pauseCalls' = done1
                     /\ dispatcher' = [pc |-> "recv", cmd |-> 0, targets |-> <<>>,
                                       alert_level |-> "None"]
                     /\ commands' = [commands EXCEPT ![dispatcher.cmd] =
                                        [@ EXCEPT !.upto = Len(q1), !.done = TRUE]]
                ELSE LET n == BeginPause(dispatcher.cmd, Head(rest),
                                         dispatcher.alert_level, q1, done1)
                     IN /\ alertQueue' = n.queue
                        /\ pauseCalls' = n.calls
                        /\ dispatcher' = [dispatcher EXCEPT !.targets = rest]
                        /\ commands' = [commands EXCEPT ![dispatcher.cmd] =
                                           [@ EXCEPT !.upto = Len(n.queue)]]
    /\ UNCHANGED <<lifeVars, actionQueue, alerterVars, watchVars>>

\* A pause() call the dispatcher stopped waiting for resolves.
LateResult ==
    /\ tasks.process = "running"
    /\ \E k \in abandoned :
          /\ abandoned' = abandoned \ {k}
          /\ alertQueue' = alertQueue \o
                LateResultAlerts(pauseCalls[k].contract, pauseCalls[k].behaviour.result,
                                 pauseCalls[k].alert_level)
    /\ UNCHANGED <<lifeVars, now, alerterVars, actionQueue, dispatcher, pauseCalls, commands,
                   watchVars>>

NextActions == SubmitAction \/ RecvAction \/ FinishPause \/ LateResult

SpecActions == InitActions /\ [][NextActions]_vars

(***************************************************************************)
(* Dispatcher: claims                                                      *)
(***************************************************************************)
\* The alerts sent between the start and the end of pause call k.
AlertsOfCall(k) == SubSeq(alertQueue, pauseCalls[k].from + 1, pauseCalls[k].upto)

FinishedCalls == {k \in DOMAIN pauseCalls : pauseCalls[k].outcome # "pending"}

\* C4: a pause() that does not resolve within the 30 second timeout gives,
\* 30 seconds after the call, exactly one "timed out" alert at the command's
\* escalation level after the "pausing" alert and no "succeeded" alert, and
\* nothing is reported when the abandoned call resolves later: every alert
\* on the queue is the "pausing" or the outcome alert of one call.
C4_ActionTimeout ==
    /\ \A k \in FinishedCalls :
          pauseCalls[k].outcome = "timeout" =>
              /\ pauseCalls[k].elapsed = PauseTimeout
              /\ AlertsOfCall(k) =
                    <<TryAlert(pauseCalls[k].contract),
                      AlertParams(<<"Timeout while pausing ", pauseCalls[k].contract,
                                    " contract.">>,
                                  pauseCalls[k].alert_level,
                                  "EthereumTimeoutPauseContract")>>
    /\ \A k \in FinishedCalls :
          (~pauseCalls[k].behaviour.resolves
              \/ pauseCalls[k].behaviour.latency > PauseTimeout)
          => pauseCalls[k].outcome = "timeout"
    /\ Len(alertQueue) = 2 * Cardinality(FinishedCalls)
                            + Cardinality(DOMAIN pauseCalls \ FinishedCalls)

\* A pause() that never resolves timed out at level Error, and a call that
\* was abandoned has resolved since.
C4_Witness ==
    /\ \E k \in FinishedCalls :
          /\ ~pauseCalls[k].behaviour.resolves
          /\ pauseCalls[k].outcome = "timeout"
          /\ pauseCalls[k].alert_level = "Error"
    /\ \E k \in FinishedCalls :
          /\ pauseCalls[k].behaviour.resolves
          /\ pauseCalls[k].outcome = "timeout"
          /\ k \notin abandoned

CallsOfCommand(c) == SelectSeq(pauseCalls, LAMBDA call : call.cmd = c)

PauseAllOrder == <<"state", "gateway", "portal">>

\* The alerts a finished pause call must have produced.
ExpectedAlerts(call) ==
    <<TryAlert(call.contract),
      OutcomeAlert(call.contract, call.outcome, call.alert_level)>>

\* C5: a PauseAll command invokes pause() on the state contract, then the
\* gateway, then the portal, whatever the outcome of the earlier ones, and
\* its alerts are the pausing/outcome alerts of the three in that order.
C5_PauseAllIndependence ==
    \A c \in DOMAIN commands :
        commands[c].action = "PauseAll" =>
            LET calls == CallsOfCommand(c)
            IN /\ Len(calls) <= 3
               /\ \A i \in DOMAIN calls : calls[i].contract = PauseAllOrder[i]
               /\ \A i \in DOMAIN calls :
                     (i < Len(calls) \/ commands[c].done) => calls[i].outcome # "pending"
               /\ commands[c].done =>
                     /\ Len(calls) = 3
                     /\ SubSeq(alertQueue, commands[c].from + 1, commands[c].upto)
                           = ExpectedAlerts(calls[1]) \o ExpectedAlerts(calls[2])
                                \o ExpectedAlerts(calls[3])

\* A finished PauseAll whose state pause succeeded, gateway pause failed and
\* portal pause succeeded.
C5_Witness ==
    \E c \in DOMAIN commands :
        /\ commands[c].action = "PauseAll"
        /\ commands[c].done
        /\ LET calls == CallsOfCommand(c)
           IN /\ Len(calls) = 3
              /\ calls[1].outcome = "ok"
              /\ calls[2].outcome = "err"
              /\ calls[3].outcome = "ok"

\* The dispatcher takes a command of the given kind off the action channel.
Receiving(action) ==
    /\ actionQueue # <<>>
    /\ Head(actionQueue).action = action
    /\ Len(commands') = Len(commands) + 1

\* C11: dispatching a command of kind None invokes no pause() and sends no
\* alert, and the dispatcher is ready for the next command.
C11_NoneActionIsNoOp ==
    [][Receiving("None") =>
          /\ pauseCalls' = pauseCalls
          /\ alertQueue' = alertQueue
          /\ abandoned' = abandoned
          /\ dispatcher' = dispatcher
          /\ dispatcher.pc = "recv"]_vars

\* A command of kind None with escalation level Error has been dispatched.
C11_Witness ==
    \E c \in DOMAIN commands :
        /\ commands[c].action = "None"
        /\ commands[c].alert_level = "Error"
        /\ commands[c].done
        /\ actionQueue = <<>>

\* C18: a pause() that completes with Err(e) within the timeout gives
\* exactly one pause-failed alert after the "pausing" alert, at the
\* escalation level of the command and with the message of e as its text,
\* and no "succeeded" alert: a "succeeded" alert is the outcome alert of a
\* call that returned Ok.
C18_PauseError ==
    /\ \A k \in FinishedCalls :
          pauseCalls[k].outcome \in PauseErrors =>
              /\ pauseCalls[k].elapsed <= PauseTimeout
              /\ AlertsOfCall(k) =
                    <<TryAlert(pauseCalls[k].contract),
                      AlertParams(ErrorText(pauseCalls[k].contract, pauseCalls[k].outcome),
                                  pauseCalls[k].alert_level,
                                  "EthereumFailPauseContract")>>
    /\ \A k \in FinishedCalls :
          (/\ pauseCalls[k].behaviour.result \in PauseErrors
           /\ pauseCalls[k].behaviour.latency < PauseTimeout)
          => pauseCalls[k].outcome = pauseCalls[k].behaviour.result
    /\ \A i \in DOMAIN alertQueue :
          alertQueue[i].alert_type = "EthereumSuccessPauseContract"
          => \E k \in FinishedCalls : /\ pauseCalls[k].outcome = "ok"
                                      /\ pauseCalls[k].upto = i

\* The pause() of a PauseState command at level Error returned an Err from
\* the network one second after the call.
C18_Witness ==
    \E k \in FinishedCalls :
        /\ pauseCalls[k].outcome = "err"
        /\ pauseCalls[k].network
        /\ pauseCalls[k].elapsed = 1
        /\ pauseCalls[k].alert_level = "Error"
        /\ pauseCalls[k].contract = "state"
        /\ commands[pauseCalls[k].cmd].action = "PauseState"
        /\ commands[pauseCalls[k].cmd].done

\* The category and the level of the outcome alert of a pause attempt made
\* at an escalation level.
OutcomeCategory(outcome) ==
    CASE outcome = "ok" -> "EthereumSuccessPauseContract"
      [] outcome = "timeout" -> "EthereumTimeoutPauseContract"
      [] outcome \in PauseErrors -> "EthereumFailPauseContract"

OutcomeLevel(outcome, alert_level) == IF outcome = "ok" THEN "Info" ELSE alert_level

\* C26: every pause attempt sends an Info "pausing" alert before pause() is
\* awaited, and exactly one outcome alert after it: "succeeded" at Info
\* whatever the escalation level, "failed" or "timed out" at the escalation
\* level. Nothing else is sent on the alert channel.
C26_PauseProtocol ==
    /\ \A k \in DOMAIN pauseCalls :
          LET call == pauseCalls[k]
              sent == AlertsOfCall(k)
          IN /\ Len(sent) = IF k \in FinishedCalls THEN 2 ELSE 1
             /\ sent[1].level = "Info"
             /\ sent[1].alert_type = "EthereumTryPauseContract"
             /\ sent[1].text = <<"Pausing ", call.contract, " contract.">>
             /\ k \in FinishedCalls =>
                   /\ sent[2].alert_type = OutcomeCategory(call.outcome)
                   /\ sent[2].level = OutcomeLevel(call.outcome, call.alert_level)
             /\ k > 1 => pauseCalls[k - 1].upto = call.from
             /\ k \notin FinishedCalls => k = Len(pauseCalls) /\ dispatcher.pc = "await"
    /\ Len(alertQueue) = IF pauseCalls = <<>> THEN 0
                          ELSE pauseCalls[Len(pauseCalls)].upto

\* A PauseAll command at level Error was handled to the end: the pause of
\* the state contract succeeded, that of the gateway failed and that of the
\* portal timed out.
C26_Witness ==
    /\ Len(pauseCalls) = 3
    /\ FinishedCalls = 1..3
    /\ pauseCalls[1].outcome = "ok"
    /\ pauseCalls[2].outcome = "err"
    /\ pauseCalls[3].outcome = "timeout"
    /\ pauseCalls[1].alert_level = "Error"
    /\ Len(alertQueue) = 6

\* The contract a command that pauses one contract is about.
MatchingContract(action) ==
    CASE action = "PauseState" -> "state"
      [] action = "PauseGateway" -> "gateway"
      [] action = "PausePortal" -> "portal"

\* C19: a PauseState, PauseGateway or PausePortal command invokes pause()
\* once, on the contract it names: its only call is made when the command
\* is received, no call is made on another contract, and no second call
\* follows an error or a timeout.
C19_SingleTarget ==
    \A c \in DOMAIN commands :
        commands[c].action \in {"PauseState", "PauseGateway", "PausePortal"} =>
            LET calls == CallsOfCommand(c)
            IN /\ Len(calls) = 1
               /\ calls[1].contract = MatchingContract(commands[c].action)
               /\ commands[c].done <=> calls[1].outcome # "pending"
               /\ commands[c].done /\ c = Len(commands) => dispatcher.pc = "recv"

\* A PauseGateway command has been handled to the end: its pause() timed
\* out, it was the only call made, and the dispatcher waits for the next
\* command.
C19_Witness ==
    /\ Len(commands) = 1
    /\ commands[1].action = "PauseGateway"
    /\ commands[1].done
    /\ Len(pauseCalls) = 1
    /\ pauseCalls[1].contract = "gateway"
    /\ pauseCalls[1].outcome = "timeout"
    /\ dispatcher.pc = "recv"

\* The text of the outcome alert of a finished call.
OutcomeText(k) == alertQueue[pauseCalls[k].upto].text

\* C20: pause() on a contract built read-only returns at once, without a
\* network call, with the error "Ethereum account not configured.", which
\* no other failure of pause() gives; pause() on a gateway or portal built
\* with a key whose contract is not set returns an error, without a network
\* call either.
C20_ReadOnlyPauseFailsFast ==
    \A k \in FinishedCalls :
        /\ contracts.read_only =>
              /\ pauseCalls[k].outcome = "not_configured"
              /\ pauseCalls[k].elapsed = 0
              /\ ~pauseCalls[k].network
        /\ (OutcomeText(k) = <<"Ethereum account not configured.">>)
              <=> contracts.read_only
        /\ (/\ ~contracts.read_only
            /\ pauseCalls[k].contract \in {"gateway", "portal"}
            /\ ~contracts[pauseCalls[k].contract]) =>
              /\ pauseCalls[k].outcome \in PauseErrors
              /\ pauseCalls[k].elapsed = 0
              /\ ~pauseCalls[k].network

\* A PauseAll command was handled with read-only contracts: each of the
\* three pause() calls failed at once and none reached the network.
C20_Witness ==
    /\ contracts.read_only
    /\ Len(pauseCalls) = 3
    /\ \A k \in DOMAIN pauseCalls :
          /\ pauseCalls[k].outcome = "not_configured"
          /\ ~pauseCalls[k].network
    /\ commands[1].done
    /\ now = 0

\* A PauseGateway command was handled with a gateway built with a key and
\* not initialized.
C20_NotInitializedReached ==
    /\ ~contracts.read_only
    /\ ~contracts.gateway
    /\ Len(pauseCalls) = 1
    /\ pauseCalls[1].contract = "gateway"
    /\ pauseCalls[1].outcome = "not_initialized"

(***************************************************************************)
(* The dispatcher with the alert handling task: the alerts of              *)
(* pause_contract are routed by handle_alert                               *)
(***************************************************************************)
NextEscalation ==
    \/ SubmitAction
    \/ RecvAction
    \/ FinishPause
    \/ LateResult
    \/ HandleAlert

SpecEscalation == InitActions /\ [][NextEscalation]_vars

\* The handled alerts of pause_contract's Err arm that were paged.
PagedPauseFailures ==
    {i \in DOMAIN handled : /\ handled[i].params.alert_type = "EthereumFailPauseContract"
                            /\ handled[i].paged = 1}

\* A PauseAll at level Error whose three pause() calls returned an error,
\* with all its alerts processed.
AllPausesFailed(c) ==
    /\ commands[c].action = "PauseAll"
    /\ commands[c].alert_level = "Error"
    /\ commands[c].done
    /\ Len(CallsOfCommand(c)) = 3
    /\ \A k \in 1..3 : CallsOfCommand(c)[k].outcome \in PauseErrors
    /\ alertQueue = <<>>

\* C33: the attempt, failure and timeout alerts of a pause belong to a dedup
\* category of the contract being paused, so that the alert of one contract
\* is not suppressed as a duplicate of the alert of another: a PauseAll at
\* level Error whose three pauses fail is paged three times.
\* The three failure alerts are of the one category EthereumFailPauseContract:
\* the first opens its window and the two others, processed inside it, are
\* not paged.
C33_PageForEachContract ==
    \A c \in DOMAIN commands :
       AllPausesFailed(c) => Cardinality(PagedPauseFailures) = 3

\* The alerts of pause_contract have a category for each arm, whatever the
\* contract; the failure alerts of a command are all handled, and the first
\* of them is paged.
C33_CategoryPerOutcome ==
    /\ \A k \in DOMAIN pauseCalls, j \in DOMAIN pauseCalls :
          (pauseCalls[k].outcome \in PauseErrors /\ pauseCalls[j].outcome \in PauseErrors)
          => OutcomeAlert(pauseCalls[k].contract, pauseCalls[k].outcome, "Error").alert_type
             = OutcomeAlert(pauseCalls[j].contract, pauseCalls[j].outcome, "Error").alert_type
    /\ \A c \in DOMAIN commands :
          AllPausesFailed(c) =>
             /\ Cardinality({i \in DOMAIN handled :
                   handled[i].params.alert_type = "EthereumFailPauseContract"}) = 3
             /\ Cardinality(PagedPauseFailures) >= 1

(***************************************************************************)
(* ethereum_watcher.rs, fuel_watcher.rs: data                              *)
(***************************************************************************)
\* COMMIT_CHECK_STARTING_OFFSET: 24 * 60 * 60 seconds
COMMIT_CHECK_STARTING_OFFSET == 86400
ETHEREUM_BLOCK_TIME == 12

MaxIsFirst(a, b) == a

Max(a, b) == IF a >= b THEN a ELSE b

RECURSIVE Pow10(_)
Pow10(n) == IF n = 0 THEN 1 ELSE 10 * Pow10(n - 1)

\* get_value on a whole amount: value_fp * 10^p1 as u64, times 10^p2.
get_value(value_fp, decimals) ==
    LET decimals_p1 == IF decimals < 9 THEN decimals ELSE decimals - 9
        decimals_p2 == decimals - decimals_p1
    IN (value_fp * Pow10(decimals_p1)) * Pow10(decimals_p2)

\* The result of a probe: Ok(value) or Err(err).
ProbeOk(v) == [ok |-> TRUE, value |-> v, err |-> ""]
ProbeErr == [ok |-> FALSE, value |-> 0, err |-> "probe error"]

\* A call of a collaborator: which one, for which entry of a list of alert
\* configurations (0: none), from which block (-1: none).
ProbeCall(probe, entry, from_block) ==
    [probe |-> probe, entry |-> entry, from_block |-> from_block]

\* send_alert(&alert_sender, name, description, level) as the watch loops call it
WatcherAlert(name, description, level) ==
    [name |-> name, description |-> description, level |-> level]

\* send_alert followed by send_action(&action_sender, action, Some(level)):
\* entry is the entry of the configuration list that made the calls (0: none).
Emit(entry, name, description, level, action) ==
    [entry |-> entry,
     alert |-> WatcherAlert(name, description, level),
     action |-> Head(send_action(<<>>, action, level))]

\* What one indicator run did: the probes it called and the alert/action
\* pairs it sent.
Nothing == [probes |-> <<>>, emits |-> <<>>]

(***************************************************************************)
(* The configurations the loops are started with.                          *)
(***************************************************************************)
EthSlots == {"connection", "block_production", "account_funds", "invalid_state_commit",
             "portal_deposit_1", "portal_deposit_2",
             "portal_withdrawal_1", "portal_withdrawal_2",
             "gateway_deposit_1", "gateway_deposit_2",
             "gateway_withdrawal_1", "gateway_withdrawal_2"}

FuelSlots == {"connection", "block_production",
              "portal_withdraw_1", "portal_withdraw_2",
              "gateway_withdraw_1", "gateway_withdraw_2"}

\* Assignments of alert levels to the indicators: all enabled, all disabled,
\* one disabled among enabled ones, one enabled among disabled ones.
LevelAssignments(slots) ==
    {[x \in slots |-> l] : l \in {"None", "Warn", "Error"}}
    \cup {[x \in slots |-> IF x = off THEN "None" ELSE "Warn"] : off \in slots}
    \cup {[x \in slots |-> IF x = on THEN "Error" ELSE "None"] : on \in slots}

\* config.rs: DepositAlert / WithdrawAlert
TokenAlert(level, action, name, amount) ==
    [alert_level |-> level, alert_action |-> action, token_name |-> name,
     token_decimals |-> 1, token_address |-> "0x00", time_frame |-> 300,
     amount |-> amount]

\* config.rs: EthereumClientWatcher
EthereumClientWatcher(lv, block_action) ==
    [connection_alert |->
        [alert_level |-> lv["connection"], alert_action |-> "None"],
     block_production_alert |->
        [alert_level |-> lv["block_production"], alert_action |-> block_action,
         max_block_time |-> 20],
     account_funds_alert |->
        [alert_level |-> lv["account_funds"], alert_action |-> "PauseGateway",
         min_balance |-> 10],
     invalid_state_commit_alert |->
        [alert_level |-> lv["invalid_state_commit"], alert_action |-> "PauseState"],
     portal_deposit_alerts |->
        <<TokenAlert(lv["portal_deposit_1"], "PausePortal", "ETH", 1),
          TokenAlert(lv["portal_deposit_2"], "PauseAll", "ETH", 2)>>,
     portal_withdrawal_alerts |->
        <<TokenAlert(lv["portal_withdrawal_1"], "PausePortal", "ETH", 1),
          TokenAlert(lv["portal_withdrawal_2"], "PauseAll", "ETH", 2)>>,
     gateway_deposit_alerts |->
        <<TokenAlert(lv["gateway_deposit_1"], "PauseGateway", "USDC", 1),
          TokenAlert(lv["gateway_deposit_2"], "PauseAll", "USDC", 2)>>,
     gateway_withdrawal_alerts |->
        <<TokenAlert(lv["gateway_withdrawal_1"], "PauseGateway", "USDC", 1),
          TokenAlert(lv["gateway_withdrawal_2"], "PauseAll", "USDC", 2)>>]

\* config.rs: FuelClientWatcher
FuelClientWatcher(lv, block_action) ==
    [connection_alert |->
        [alert_level |-> lv["connection"], alert_action |-> "None"],
     block_production_alert |->
        [alert_level |-> lv["block_production"], alert_action |-> block_action,
         max_block_time |-> 20],
     portal_withdraw_alerts |->
        <<TokenAlert(lv["portal_withdraw_1"], "PausePortal", "ETH", 1),
          TokenAlert(lv["portal_withdraw_2"], "PauseAll", "ETH", 2)>>,
     gateway_withdraw_alerts |->
        <<TokenAlert(lv["gateway_withdraw_1"], "PauseGateway", "USDC", 1),
          TokenAlert(lv["gateway_withdraw_2"], "PauseAll", "USDC", 2)>>]

BlockActions == {"None", "PauseAll"}

EthConfigs ==
    {EthereumClientWatcher(lv, a) : lv \in LevelAssignments(EthSlots), a \in BlockActions}

FuelConfigs ==
    {FuelClientWatcher(lv, a) : lv \in LevelAssignments(FuelSlots), a \in BlockActions}

\* The heights the ethereum chain reports: at the start of the loop, and to
\* the height probe of an iteration.
StartHeights == {7199, 7200, 7202}
LoopHeights == {7202, 7203}

\* The commit hashes the state contract reports, and what the fuel chain
\* answers for each.
CommitLists == {<<>>, <<"0xaa">>, <<"0xaa", "0xbb">>}
VerifyAnswers == {"valid", "invalid", "err"}

\* The seconds since the last block a chain reports.
SecondsChoices == {20, 21}

\* What a volume probe answers, relative to the threshold of its entry.
VolumeAnswers == {"err", "below", "equal"}

(***************************************************************************)
(* ethereum_watcher.rs: the indicators                                     *)
(***************************************************************************)
\* check_chain_connection
check_chain_connection(cfg, resp) ==
    IF cfg.connection_alert.alert_level = "None" THEN Nothing
    ELSE [probes |-> <<ProbeCall("check_connection", 0, -1)>>,
          emits |-> IF resp.ok THEN <<>>
                    ELSE <<Emit(0, <<"Failed to check ethereum connection">>,
                                <<"Failed to check ethereum connection: ", resp.err>>,
                                cfg.connection_alert.alert_level,
                                cfg.connection_alert.alert_action)>>]

BlockDelayedOrEqual(seconds, max_block_time) == seconds >= max_block_time

\* seconds_since_last_block > watch_config.block_production_alert.max_block_time
BlockDelayed(seconds, max_block_time) == seconds > max_block_time

\* check_block_production
check_block_production(cfg, resp) ==
    LET c == cfg.block_production_alert
    IN IF c.alert_level = "None" THEN Nothing
       ELSE [probes |-> <<ProbeCall("get_seconds_since_last_block", 0, -1)>>,
             emits |->
                IF ~resp.ok
                THEN <<Emit(0, <<"Failed to check ethereum block">>,
                            <<"Failed to check ethereum block production: ", resp.err>>,
                            c.alert_level, c.alert_action)>>
                ELSE IF BlockDelayed(resp.value, c.max_block_time)
                THEN <<Emit(0, <<"Ethereum block is taking long">>,
                            <<"Next ethereum block is taking longer than ",
                              ToString(c.max_block_time),
                              " seconds. Last block was ", ToString(resp.value),
                              " seconds ago.">>,
                            c.alert_level, c.alert_action)>>
                ELSE <<>>]

\* check_account_balance: balances are counted in whole ether, so that
\* retrieved_balance < get_value(min_balance, 18) reads resp.value < min_balance.
check_account_balance(cfg, has_address, resp) ==
    LET c == cfg.account_funds_alert
    IN IF ~has_address THEN Nothing
       ELSE IF c.alert_level = "None" THEN Nothing
       ELSE [probes |-> <<ProbeCall("get_account_balance", 0, -1)>>,
             emits |->
                IF ~resp.ok
                THEN <<Emit(0, <<"Failed to check ethereum account funds">>,
                            <<"Failed to check ethereum account funds: ", resp.err>>,
                            c.alert_level, c.alert_action)>>
                ELSE IF resp.value < c.min_balance
                THEN <<Emit(0, <<"Ethereum account low on funds">>,
                            <<"Ethereum account (", "address",
                              ") is low on funds. Current balance: ",
                              ToString(resp.value)>>,
                            c.alert_level, c.alert_action)>>
                ELSE <<>>]

\* check_invalid_commits: the test that skips the indicator
CommitCheckSkipped(cfg) == cfg.account_funds_alert.alert_level = "None"

\* A loop over the hashes that ends at the first verification that returns
\* an error.
RECURSIVE VerifyCommitsStopOnFailure(_, _, _, _)
VerifyCommitsStopOnFailure(hashes, verify, i, c) ==
    IF i > Len(hashes) THEN Nothing
    ELSE LET answer == verify[hashes[i]]
             rest == IF answer = "err" THEN Nothing
                     ELSE VerifyCommitsStopOnFailure(hashes, verify, i + 1, c)
             emits ==
                CASE answer = "valid" -> <<>>
                  [] answer = "invalid" ->
                        <<Emit(i, <<"Invalid commit was made on the state contract">>,
                               <<"An invalid commit was made on the state contract. Hash: ",
                                 hashes[i]>>,
                               c.alert_level, c.alert_action)>>
                  [] answer = "err" ->
                        <<Emit(i, <<"Failed to check fuel chain state commit contract">>,
                               <<"Failed to check fuel chain state commit: ", "probe error">>,
                               c.alert_level, c.alert_action)>>
         IN [probes |-> <<ProbeCall("verify_block_commit", i, -1)>> \o rest.probes,
             emits |-> emits \o rest.emits]

\* check_invalid_commits: the loop over the hashes
RECURSIVE VerifyCommits(_, _, _, _)
VerifyCommits(hashes, verify, i, c) ==
    IF i > Len(hashes) THEN Nothing
    ELSE LET rest == VerifyCommits(hashes, verify, i + 1, c)
             answer == verify[hashes[i]]
             emits ==
                CASE answer = "valid" -> <<>>
                  [] answer = "invalid" ->
                        <<Emit(i, <<"Invalid commit was made on the state contract">>,
                               <<"An invalid commit was made on the state contract. Hash: ",
                                 hashes[i]>>,
                               c.alert_level, c.alert_action)>>
                  [] answer = "err" ->
                        <<Emit(i, <<"Failed to check fuel chain state commit contract">>,
                               <<"Failed to check fuel chain state commit: ", "probe error">>,
                               c.alert_level, c.alert_action)>>
         IN [probes |-> <<ProbeCall("verify_block_commit", i, -1)>> \o rest.probes,
             emits |-> emits \o rest.emits]

HeightOrZero(height, watermark) ==
    IF height.ok THEN height.value ELSE 0

\* match get_latest_block_number().await { Ok(n) => n, Err(_) => *last_commit_check_block }
HeightOrKeep(height, watermark) ==
    IF height.ok THEN height.value ELSE watermark

\* check_invalid_commits: commits is the answer of get_latest_commits (ok and
\* the hashes), verify the answers of verify_block_commit, height the answer
\* of get_latest_block_number.
check_invalid_commits(cfg, watermark, commits, verify, height) ==
    LET c == cfg.invalid_state_commit_alert
    IN IF CommitCheckSkipped(cfg)
       THEN [probes |-> <<>>, emits |-> <<>>, watermark |-> watermark,
             height |-> "unprobed"]
       ELSE IF ~commits.ok
       THEN [probes |-> <<ProbeCall("get_latest_commits", 0, watermark)>>,
             emits |-> <<Emit(0, <<"Failed to check state contract">>,
                              <<"Failed to check state contract commits: ", "probe error">>,
                              c.alert_level, c.alert_action)>>,
             watermark |-> watermark,
             height |-> "unprobed"]
       ELSE LET v == VerifyCommits(commits.hashes, verify, 1, c)
            IN [probes |-> <<ProbeCall("get_latest_commits", 0, watermark)>>
                              \o v.probes
                              \o <<ProbeCall("get_latest_block_number", 0, -1)>>,
                emits |-> v.emits,
                watermark |-> HeightOrKeep(height, watermark),
                height |-> IF height.ok THEN "ok" ELSE "err"]

\* The texts of a volume indicator.
VolumeTexts(probe, failName, failDesc, breachName, breachDesc, withToken) ==
    [probe |-> probe, failName |-> failName, failDesc |-> failDesc,
     breachName |-> breachName, breachDesc |-> breachDesc, withToken |-> withToken]

VolumeName(text, c, withToken) ==
    IF withToken THEN <<text, c.token_name, c.token_address>> ELSE <<text>>

\* What the volume probe of entry c returns for an answer.
VolumeResp(answer, c) ==
    CASE answer = "err" -> ProbeErr
      [] answer = "below" -> ProbeOk(get_value(c.amount, c.token_decimals) - 1)
      [] answer = "equal" -> ProbeOk(get_value(c.amount, c.token_decimals))

\* A loop over the entries for which an amount equal to the threshold is not
\* a breach.
RECURSIVE CheckVolumesAboveOnly(_, _, _, _, _)
CheckVolumesAboveOnly(entries, answers, i, from_block, t) ==
    IF i > Len(entries) THEN Nothing
    ELSE LET c == entries[i]
             rest == CheckVolumesAboveOnly(entries, answers, i + 1, from_block, t)
         IN IF c.alert_level = "None" THEN rest
            ELSE LET resp == VolumeResp(answers[i], c)
                     amount_threshold == get_value(c.amount, c.token_decimals)
                     emits ==
                        IF ~resp.ok
                        THEN <<Emit(i, VolumeName(t.failName, c, t.withToken),
                                    <<t.failDesc, resp.err>>,
                                    c.alert_level, c.alert_action)>>
                        ELSE IF resp.value > amount_threshold
                        THEN <<Emit(i, VolumeName(t.breachName, c, t.withToken),
                                    <<t.breachDesc, ToString(amount_threshold),
                                      ToString(c.time_frame), ToString(resp.value)>>,
                                    c.alert_level, c.alert_action)>>
                        ELSE <<>>
                 IN [probes |-> <<ProbeCall(t.probe, i, from_block)>> \o rest.probes,
                     emits |-> emits \o rest.emits]

\* A loop over the entries that returns at the first probe that fails.
RECURSIVE CheckVolumesStopOnFailure(_, _, _, _, _)
CheckVolumesStopOnFailure(entries, answers, i, from_block, t) ==
    IF i > Len(entries) THEN Nothing
    ELSE LET c == entries[i]
             rest == CheckVolumesStopOnFailure(entries, answers, i + 1, from_block, t)
         IN IF c.alert_level = "None" THEN rest
            ELSE LET resp == VolumeResp(answers[i], c)
                     amount_threshold == get_value(c.amount, c.token_decimals)
                 IN IF ~resp.ok
                    THEN [probes |-> <<ProbeCall(t.probe, i, from_block)>>,
                          emits |-> <<Emit(i, VolumeName(t.failName, c, t.withToken),
                                           <<t.failDesc, resp.err>>,
                                           c.alert_level, c.alert_action)>>]
                    ELSE [probes |-> <<ProbeCall(t.probe, i, from_block)>> \o rest.probes,
                          emits |->
                             (IF resp.value >= amount_threshold
                              THEN <<Emit(i, VolumeName(t.breachName, c, t.withToken),
                                          <<t.breachDesc, ToString(amount_threshold),
                                            ToString(c.time_frame), ToString(resp.value)>>,
                                          c.alert_level, c.alert_action)>>
                              ELSE <<>>) \o rest.emits]

\* The loop of a volume indicator over the entries of its configuration
\* list (check_base_asset_deposits and its seven siblings).
RECURSIVE CheckVolumes(_, _, _, _, _)
CheckVolumes(entries, answers, i, from_block, t) ==
    IF i > Len(entries) THEN Nothing
    ELSE LET c == entries[i]
             rest == CheckVolumes(entries, answers, i + 1, from_block, t)
         IN IF c.alert_level = "None" THEN rest
            ELSE LET resp == VolumeResp(answers[i], c)
                     amount_threshold == get_value(c.amount, c.token_decimals)
                     emits ==
                        IF ~resp.ok
                        THEN <<Emit(i, VolumeName(t.failName, c, t.withToken),
                                    <<t.failDesc, resp.err>>,
                                    c.alert_level, c.alert_action)>>
                        ELSE IF resp.value >= amount_threshold
                        THEN <<Emit(i, VolumeName(t.breachName, c, t.withToken),
                                    <<t.breachDesc, ToString(amount_threshold),
                                      ToString(c.time_frame), ToString(resp.value)>>,
                                    c.alert_level, c.alert_action)>>
                        ELSE <<>>
                 IN [probes |-> <<ProbeCall(t.probe, i, from_block)>> \o rest.probes,
                     emits |-> emits \o rest.emits]

\* check_base_asset_deposits
check_base_asset_deposits(cfg, answers, watermark) ==
    CheckVolumes(cfg.portal_deposit_alerts, answers, 1, watermark,
        VolumeTexts("get_base_amount_deposited",
                    "Failed to check portal contract for base asset deposits",
                    "Failed to check base asset deposits: ",
                    "Ethereum Chain: Base asset is above deposit threshold.",
                    "Base asset deposit threshold has been reached.", FALSE))

\* check_base_asset_withdrawals
check_base_asset_withdrawals(cfg, answers, watermark) ==
    CheckVolumes(cfg.portal_withdrawal_alerts, answers, 1, watermark,
        VolumeTexts("get_base_amount_withdrawn",
                    "Failed to check portal contract for base asset withdrawals",
                    "Failed to check base asset withdrawals: ",
                    "Ethereum Chain: Base asset is above withdrawal threshold.",
                    "Base asset withdrawal threshold has been exceeded.", FALSE))

\* check_token_deposits
check_token_deposits(cfg, answers, watermark) ==
    CheckVolumes(cfg.gateway_deposit_alerts, answers, 1, watermark,
        VolumeTexts("get_token_amount_deposited",
                    "Failed to check ERC20 deposits",
                    "Failed to check ERC20 deposits: ",
                    "Ethereum Chain: ERC20 is above deposit threshold",
                    "ERC20 deposit threshold has been reached.", TRUE))

\* check_token_withdrawals
check_token_withdrawals(cfg, answers, watermark) ==
    CheckVolumes(cfg.gateway_withdrawal_alerts, answers, 1, watermark,
        VolumeTexts("get_token_amount_withdrawn",
                    "Ethereum Chain: Failed to check ERC20 withdrawals",
                    "Failed to check ERC20 withdrawals: ",
                    "Ethereum Chain: ERC20 is above withdrawal threshold",
                    "ERC20 withdrawal threshold has been reached.", TRUE))

(***************************************************************************)
(* fuel_watcher.rs: the indicators                                         *)
(***************************************************************************)
\* check_fuel_chain_connection
check_fuel_chain_connection(cfg, resp) ==
    IF cfg.connection_alert.alert_level = "None" THEN Nothing
    ELSE [probes |-> <<ProbeCall("check_connection", 0, -1)>>,
          emits |-> IF resp.ok THEN <<>>
                    ELSE <<Emit(0, <<"Failed to check fuel connection">>,
                                <<"Failed to check fuel connection: ", resp.err>>,
                                cfg.connection_alert.alert_level,
                                cfg.connection_alert.alert_action)>>]

\* check_fuel_block_production
check_fuel_block_production(cfg, resp) ==
    LET c == cfg.block_production_alert
    IN IF c.alert_level = "None" THEN Nothing
       ELSE [probes |-> <<ProbeCall("get_seconds_since_last_block", 0, -1)>>,
             emits |->
                IF ~resp.ok
                THEN <<Emit(0, <<"Failed to check fuel block production">>,
                            <<"Failed to check fuel block production: ", resp.err>>,
                            c.alert_level, c.alert_action)>>
                ELSE IF BlockDelayed(resp.value, c.max_block_time)
                THEN <<Emit(0, <<"Fuel block is taking long">>,
                            <<"Next fuel block is taking longer than ",
                              ToString(c.max_block_time),
                              " seconds. Last block was ", ToString(resp.value),
                              " seconds ago.">>,
                            c.alert_level, c.alert_action)>>
                ELSE <<>>]

\* check_fuel_base_asset_withdrawals
check_fuel_base_asset_withdrawals(cfg, answers) ==
    CheckVolumes(cfg.portal_withdraw_alerts, answers, 1, -1,
        VolumeTexts("get_base_amount_withdrawn",
                    "Failed to check fuel chain for base asset withdrawals",
                    "Failed to check base asset withdrawals: ",
                    "Fuel Chain: Base asset is above withdrawal threshold",
                    "Base asset withdraw threshold has been reached.", FALSE))

\* check_fuel_token_withdrawals
check_fuel_token_withdrawals(cfg, answers) ==
    CheckVolumes(cfg.gateway_withdraw_alerts, answers, 1, -1,
        VolumeTexts("get_token_amount_withdrawn",
                    "Failed to check fuel chain for ERC20 withdrawals",
                    "Failed to check ERC20 withdrawals: ",
                    "Fuel Chain: ERC20 is above withdrawal threshold",
                    "ERC20 withdraw threshold has been reached.", TRUE))

(***************************************************************************)
(* start_ethereum_watcher, start_fuel_watcher: the loops                   *)
(***************************************************************************)
MaxIterations == 2  \* iterations of a watch loop in one behaviour

\* POLL_DURATION, in seconds
POLL_DURATION == 6

\* An order of the ethereum loop that checks the account balance after the
\* commits.
EthereumOrderCommitsFirst ==
    <<"heartbeat", "connection", "block_production", "invalid_commits",
      "account_balance", "base_deposits", "base_withdrawals",
      "token_deposits", "token_withdrawals", "sleep">>

\* The fixed order of an iteration of each loop.
EthereumOrder == <<"heartbeat", "connection", "block_production", "account_balance",
                   "invalid_commits", "base_deposits", "base_withdrawals",
                   "token_deposits", "token_withdrawals", "sleep">>

FuelOrder == <<"heartbeat", "connection", "block_production",
               "base_withdrawals", "token_withdrawals", "sleep">>

Order == IF chain = "ethereum" THEN EthereumOrder ELSE FuelOrder

\* A loop that ends with its first iteration.
NextPcOnce(pc) ==
    LET i == CHOOSE k \in DOMAIN Order : Order[k] = pc
    IN IF i = Len(Order) THEN "ended" ELSE Order[i + 1]

\* The position after pc in the order of the loop; the loop starts over
\* after the sleep.
NextPc(pc) ==
    LET i == CHOOSE k \in DOMAIN Order : Order[k] = pc
    IN IF i = Len(Order) THEN Order[1] ELSE Order[i + 1]

RECURSIVE AlertsOf(_)
AlertsOf(emits) ==
    IF emits = <<>> THEN <<>> ELSE <<Head(emits).alert>> \o AlertsOf(Tail(emits))

RECURSIVE ActionsOf(_)
ActionsOf(emits) ==
    IF emits = <<>> THEN <<>> ELSE <<Head(emits).action>> \o ActionsOf(Tail(emits))

ConnectionAnswers == {ProbeOk(0), ProbeErr}
SecondsAnswers == {ProbeErr} \cup {ProbeOk(x) : x \in SecondsChoices}
BalanceAnswers == {ProbeErr, ProbeOk(9), ProbeOk(10)}
CommitsAnswers ==
    {[ok |-> FALSE, hashes |-> <<>>]} \cup {[ok |-> TRUE, hashes |-> h] : h \in CommitLists}
HeightAnswers == {ProbeErr} \cup {ProbeOk(h) : h \in LoopHeights}

\* The alerter and the dispatcher are not part of this specification: what
\* the loops send is taken off the channels by Drain.
InitWatch ==
    /\ now = 0
    /\ alertQueue = <<>>
    /\ AlerterIdle
    /\ ActionsIdle
    /\ Wired
    /\ Deployed
    /\ chain \in {"ethereum", "fuel"}
    /\ IF chain = "ethereum"
       THEN /\ watch_config \in EthConfigs
            /\ account_address \in BOOLEAN
            /\ \E h \in StartHeights :
                 LET commit_start_block_offset ==
                        COMMIT_CHECK_STARTING_OFFSET \div ETHEREUM_BLOCK_TIME
                 IN /\ last_commit_check_block =
                        Max(h, commit_start_block_offset) - commit_start_block_offset
                    /\ lastStep = [NoStep EXCEPT !.indicator = "start",
                                                 !.resp = ProbeOk(h)]
       ELSE /\ watch_config \in FuelConfigs
            /\ account_address = FALSE
            /\ last_commit_check_block = 0
            /\ lastStep = NoStep
    /\ NodesIdle
    /\ watchPc = "heartbeat"
    /\ iteration = [n |-> 0, startWatermark |-> last_commit_check_block,
                    height |-> "unprobed", failedBefore |-> FALSE, failedLast |-> FALSE]

\* The calls of an indicator that returned an error: failed is the set of
\* the entries whose collaborator answers with an error. The height probe at
\* the end of check_invalid_commits is the watermark update.
FailedCalls(probes, failed) ==
    {i \in DOMAIN probes : /\ probes[i].probe # "get_latest_block_number"
                           /\ probes[i].entry \in failed}

\* The part of a step every indicator shares: the sends and the move to the
\* next indicator. verdicts is what the fuel chain answers for each of the
\* commit hashes the state contract returned to check_invalid_commits.
RanWith(indicator, r, resp, height, failed, verdicts, amounts) ==
    /\ alertQueue' = alertQueue \o AlertsOf(r.emits)
    /\ actionQueue' = actionQueue \o ActionsOf(r.emits)
    /\ lastStep' = [indicator |-> indicator, probes |-> r.probes, emits |-> r.emits,
                    resp |-> resp, height |-> height,
                    failed |-> {r.probes[i].entry : i \in FailedCalls(r.probes, failed)},
                    verdicts |-> verdicts, amounts |-> amounts]
    /\ iteration' = [iteration EXCEPT
                        !.height = IF indicator = "invalid_commits" THEN height ELSE @,
                        !.failedBefore = @ \/ lastStep.failed # {}]
    /\ watchPc' = NextPc(watchPc)
    /\ UNCHANGED <<lifeVars, now, alerterVars, dispatcher, pauseCalls, abandoned, commands,
                   chain, watch_config, account_address, nodeVars>>

Ran(indicator, r, resp, height, failed) ==
    RanWith(indicator, r, resp, height, failed, <<>>, <<>>)

\* The amounts the volume probes of an indicator returned, entry by entry:
\* NotObserved for an entry that is not probed or whose probe fails.
NotObserved == -1

ObservedAmounts(entries, answers) ==
    [i \in DOMAIN entries |->
        IF entries[i].alert_level = "None" \/ ~VolumeResp(answers[i], entries[i]).ok
        THEN NotObserved
        ELSE VolumeResp(answers[i], entries[i]).value]

\* A step of a volume indicator over the entries of its list.
RanVolumes(indicator, r, entries, answers) ==
    RanWith(indicator, r, NoStep.resp, "unprobed",
            {i \in DOMAIN answers : answers[i] = "err"}, <<>>,
            ObservedAmounts(entries, answers))

\* The channels are unbounded; the model lets a step run once the consumers
\* have taken what the step before it sent.
CanStep(pc) ==
    /\ chain # "none"
    /\ watchPc = pc
    /\ alertQueue = <<>>
    /\ actionQueue = <<>>

\* send_alert(.., "Watching ethereum chain.", .., AlertLevel::Info)
Heartbeat ==
    /\ CanStep("heartbeat")
    /\ iteration.n < MaxIterations
    /\ alertQueue' = Append(alertQueue,
            IF chain = "ethereum"
            THEN WatcherAlert(<<"Watching ethereum chain.">>,
                              <<"Periodically querying the ethereum chain.">>, "Info")
            ELSE WatcherAlert(<<"Watching fuel chain.">>,
                              <<"Periodically querying the fuel chain.">>, "Info"))
    /\ lastStep' = [NoStep EXCEPT !.indicator = "heartbeat"]
    /\ iteration' = [n |-> iteration.n + 1, startWatermark |-> last_commit_check_block,
                     height |-> "unprobed", failedBefore |-> FALSE,
                     failedLast |-> iteration.failedBefore]
    /\ watchPc' = NextPc(watchPc)
    /\ UNCHANGED <<lifeVars, now, alerterVars, actionVars, chain, watch_config, account_address,
                   last_commit_check_block, nodeVars>>

CheckConnection ==
    /\ CanStep("connection")
    /\ \E resp \in ConnectionAnswers :
         Ran("connection",
             IF chain = "ethereum" THEN check_chain_connection(watch_config, resp)
             ELSE check_fuel_chain_connection(watch_config, resp),
             resp, "unprobed", IF resp.ok THEN {} ELSE {0})
    /\ UNCHANGED last_commit_check_block

CheckBlockProduction ==
    /\ CanStep("block_production")
    /\ \E resp \in SecondsAnswers :
         Ran("block_production",
             IF chain = "ethereum" THEN check_block_production(watch_config, resp)
             ELSE check_fuel_block_production(watch_config, resp),
             resp, "unprobed", IF resp.ok THEN {} ELSE {0})
    /\ UNCHANGED last_commit_check_block

CheckAccountBalance ==
    /\ CanStep("account_balance")
    /\ \E resp \in BalanceAnswers :
         Ran("account_balance",
             check_account_balance(watch_config, account_address, resp),
             resp, "unprobed", IF resp.ok THEN {} ELSE {0})
    /\ UNCHANGED last_commit_check_block

CheckInvalidCommits ==
    /\ CanStep("invalid_commits")
    /\ \E commits \in CommitsAnswers, verify \in [{"0xaa", "0xbb"} -> VerifyAnswers],
          height \in HeightAnswers :
         LET r == check_invalid_commits(watch_config, last_commit_check_block,
                                        commits, verify, height)
         IN /\ RanWith("invalid_commits", r, height, r.height,
                       IF ~commits.ok THEN {0}
                       ELSE {i \in DOMAIN commits.hashes :
                                verify[commits.hashes[i]] = "err"},
                       IF r.probes = <<>> \/ ~commits.ok THEN <<>>
                       ELSE [i \in DOMAIN commits.hashes |-> verify[commits.hashes[i]]],
                       <<>>)
            /\ last_commit_check_block' = r.watermark

CheckBaseDeposits ==
    /\ CanStep("base_deposits")
    /\ \E answers \in [1..2 -> VolumeAnswers] :
         RanVolumes("base_deposits",
             check_base_asset_deposits(watch_config, answers, last_commit_check_block),
             watch_config.portal_deposit_alerts, answers)
    /\ UNCHANGED last_commit_check_block

CheckBaseWithdrawals ==
    /\ CanStep("base_withdrawals")
    /\ \E answers \in [1..2 -> VolumeAnswers] :
         RanVolumes("base_withdrawals",
             IF chain = "ethereum"
             THEN check_base_asset_withdrawals(watch_config, answers,
                                               last_commit_check_block)
             ELSE check_fuel_base_asset_withdrawals(watch_config, answers),
             IF chain = "ethereum" THEN watch_config.portal_withdrawal_alerts
             ELSE watch_config.portal_withdraw_alerts,
             answers)
    /\ UNCHANGED last_commit_check_block

CheckTokenDeposits ==
    /\ CanStep("token_deposits")
    /\ \E answers \in [1..2 -> VolumeAnswers] :
         RanVolumes("token_deposits",
             check_token_deposits(watch_config, answers, last_commit_check_block),
             watch_config.gateway_deposit_alerts, answers)
    /\ UNCHANGED last_commit_check_block

CheckTokenWithdrawals ==
    /\ CanStep("token_withdrawals")
    /\ \E answers \in [1..2 -> VolumeAnswers] :
         RanVolumes("token_withdrawals",
             IF chain = "ethereum"
             THEN check_token_withdrawals(watch_config, answers, last_commit_check_block)
             ELSE check_fuel_token_withdrawals(watch_config, answers),
             IF chain = "ethereum" THEN watch_config.gateway_withdrawal_alerts
             ELSE watch_config.gateway_withdraw_alerts,
             answers)
    /\ UNCHANGED last_commit_check_block

\* thread::sleep(POLL_DURATION)
Sleep ==
    /\ CanStep("sleep")
    /\ now' = now + POLL_DURATION
    /\ watchPc' = NextPc(watchPc)
    /\ lastStep' = [NoStep EXCEPT !.indicator = "sleep"]
    /\ iteration' = [iteration EXCEPT !.failedBefore = @ \/ lastStep.failed # {}]
    /\ UNCHANGED <<lifeVars, alertQueue, alerterVars, actionVars, chain, watch_config,
                   account_address, last_commit_check_block, nodeVars>>

\* The receivers of the two channels take everything that was sent.
Drain ==
    /\ chain # "none"
    /\ alertQueue # <<>> \/ actionQueue # <<>>
    /\ alertQueue' = <<>>
    /\ actionQueue' = <<>>
    /\ UNCHANGED <<lifeVars, now, alerterVars, dispatcher, pauseCalls, abandoned, commands,
                   watchVars>>

NextWatch ==
    \/ Heartbeat
    \/ CheckConnection
    \/ CheckBlockProduction
    \/ CheckAccountBalance
    \/ CheckInvalidCommits
    \/ CheckBaseDeposits
    \/ CheckBaseWithdrawals
    \/ CheckTokenDeposits
    \/ CheckTokenWithdrawals
    \/ Sleep
    \/ Drain

SpecWatch == InitWatch /\ [][NextWatch]_vars

(***************************************************************************)
(* Claims about the watch loops (SpecWatch)                                *)
(***************************************************************************)

\* C6: the watermark (last_commit_check_block) never decreases after its
\* initialization, for every sequence of iterations of the ethereum loop and
\* every sequence of heights or failures the height probe returns.
\* check_invalid_commits assigns the probed height without comparing it to
\* the watermark, so a height below the watermark lowers it.
C6_WatermarkMonotone ==
    [][last_commit_check_block' >= last_commit_check_block]_vars

\* C7: after an iteration of the ethereum loop in which the height probe
\* (get_latest_block_number) failed, the watermark has the value it had
\* before that iteration.
C7_WatermarkKeptOnProbeFailure ==
    iteration.height = "err" => last_commit_check_block = iteration.startWatermark

\* An iteration of the ethereum loop that started with a watermark advanced
\* by an earlier iteration has ended, and its height probe failed.
C7_Witness ==
    /\ chain = "ethereum"
    /\ watchPc = "sleep"
    /\ iteration.n = 2
    /\ iteration.height = "err"
    /\ iteration.startWatermark = 7203
    /\ last_commit_check_block = 7203

\* The alert level configured for the indicator that ran and, for an
\* indicator with a list of configurations, for the entry of the list.
ConfiguredLevel(indicator, entry) ==
    CASE indicator = "connection" -> watch_config.connection_alert.alert_level
      [] indicator = "block_production" -> watch_config.block_production_alert.alert_level
      [] indicator = "account_balance" -> watch_config.account_funds_alert.alert_level
      [] indicator = "invalid_commits" ->
            watch_config.invalid_state_commit_alert.alert_level
      [] indicator = "base_deposits" -> watch_config.portal_deposit_alerts[entry].alert_level
      [] indicator = "base_withdrawals" ->
            IF chain = "ethereum"
            THEN watch_config.portal_withdrawal_alerts[entry].alert_level
            ELSE watch_config.portal_withdraw_alerts[entry].alert_level
      [] indicator = "token_deposits" ->
            watch_config.gateway_deposit_alerts[entry].alert_level
      [] indicator = "token_withdrawals" ->
            IF chain = "ethereum"
            THEN watch_config.gateway_withdrawal_alerts[entry].alert_level
            ELSE watch_config.gateway_withdraw_alerts[entry].alert_level

Indicators == {"connection", "block_production", "account_balance", "invalid_commits",
               "base_deposits", "base_withdrawals", "token_deposits",
               "token_withdrawals"}

\* The indicator that ran called no probe and sent no alert and no action
\* for a configuration whose alert level is None.
InertWhenDisabled ==
    /\ \A i \in DOMAIN lastStep.probes :
          ConfiguredLevel(lastStep.indicator, lastStep.probes[i].entry) # "None"
    /\ \A i \in DOMAIN lastStep.emits :
          ConfiguredLevel(lastStep.indicator, lastStep.emits[i].entry) # "None"

\* C8: every indicator, on both chains, and every entry of a deposit or
\* withdrawal list, whose configured alert_level is None never calls its
\* probe and never sends an alert or an action, whatever the chains answer.
\* check_invalid_commits tests account_funds_alert.alert_level, so it runs
\* with invalid_state_commit_alert.alert_level = None.
C8_DisabledIndicatorsInert ==
    lastStep.indicator \in Indicators => InertWhenDisabled

\* Every indicator but the commit indicator is inert when disabled.
C8_OtherIndicatorsInert ==
    lastStep.indicator \in Indicators \ {"invalid_commits"} => InertWhenDisabled

\* What a step appended to a channel.
Sent(before, after) == SubSeq(after, Len(before) + 1, Len(after))

Embeds(description, text) == \E i \in DOMAIN description : description[i] = text

\* C9: the block-production indicator of either chain, when enabled and its
\* probe succeeds, sends exactly one alert at the configured level, whose
\* text embeds max_block_time and the seconds observed, and exactly one
\* action of the configured kind (None included) at the configured alert
\* level, if the seconds observed exceed max_block_time; otherwise it sends
\* no alert and no action.
C9_BlockProduction ==
    [][(/\ watchPc = "block_production"
        /\ watchPc' # "block_production"
        /\ watch_config.block_production_alert.alert_level # "None"
        /\ lastStep'.resp.ok)
       => LET c == watch_config.block_production_alert
              seconds == lastStep'.resp.value
              alerts == Sent(alertQueue, alertQueue')
              actions == Sent(actionQueue, actionQueue')
          IN IF seconds > c.max_block_time
             THEN /\ Len(alerts) = 1
                  /\ alerts[1].level = c.alert_level
                  /\ Embeds(alerts[1].description, ToString(c.max_block_time))
                  /\ Embeds(alerts[1].description, ToString(seconds))
                  /\ Len(actions) = 1
                  /\ actions[1].action = c.alert_action
                  /\ actions[1].alert_level = c.alert_level
             ELSE /\ alerts = <<>>
                  /\ actions = <<>>]_vars

\* The block-production indicator of the fuel loop, configured with the
\* action None, has just seen a block later than max_block_time and sent
\* its alert and its action.
C9_Witness ==
    /\ chain = "fuel"
    /\ lastStep.indicator = "block_production"
    /\ lastStep.resp.ok
    /\ lastStep.resp.value > watch_config.block_production_alert.max_block_time
    /\ watch_config.block_production_alert.alert_action = "None"
    /\ Len(alertQueue) = 1
    /\ actionQueue = <<ActionParams("None", watch_config.block_production_alert.alert_level)>>

\* The configuration of the indicator that ran: of the entry of its list,
\* for an indicator with a list of configurations.
ConfiguredList(indicator) ==
    CASE indicator = "base_deposits" -> watch_config.portal_deposit_alerts
      [] indicator = "base_withdrawals" ->
            IF chain = "ethereum" THEN watch_config.portal_withdrawal_alerts
            ELSE watch_config.portal_withdraw_alerts
      [] indicator = "token_deposits" -> watch_config.gateway_deposit_alerts
      [] indicator = "token_withdrawals" ->
            IF chain = "ethereum" THEN watch_config.gateway_withdrawal_alerts
            ELSE watch_config.gateway_withdraw_alerts

VolumeIndicators == {"base_deposits", "base_withdrawals", "token_deposits",
                     "token_withdrawals"}

ConfiguredAction(indicator, entry) ==
    CASE indicator = "connection" -> watch_config.connection_alert.alert_action
      [] indicator = "block_production" -> watch_config.block_production_alert.alert_action
      [] indicator = "account_balance" -> watch_config.account_funds_alert.alert_action
      [] indicator = "invalid_commits" ->
            watch_config.invalid_state_commit_alert.alert_action
      [] indicator \in VolumeIndicators -> ConfiguredList(indicator)[entry].alert_action

\* A step of an indicator of the loop.
IndicatorStep ==
    \/ CheckConnection
    \/ CheckBlockProduction
    \/ CheckAccountBalance
    \/ CheckInvalidCommits
    \/ CheckBaseDeposits
    \/ CheckBaseWithdrawals
    \/ CheckTokenDeposits
    \/ CheckTokenWithdrawals
    \/ Sleep

\* C17: an enabled indicator whose probe returns an error sends exactly one
\* alert, at its configured level and with the error in its text, and
\* exactly one action of its configured kind, for that probe; the other
\* enabled entries of its configuration list are probed all the same, and
\* the loop goes on to the indicators that follow it in the iteration.
C17_ProbeFailure ==
    /\ [][(lastStep' # lastStep /\ lastStep'.indicator \in Indicators)
           => LET step == lastStep'
                  alerts == Sent(alertQueue, alertQueue')
                  actions == Sent(actionQueue, actionQueue')
              IN /\ alerts = AlertsOf(step.emits)
                 /\ actions = ActionsOf(step.emits)
                 /\ \A e \in step.failed :
                       ConfiguredLevel(step.indicator, e) # "None"
                       => LET sent == {k \in DOMAIN step.emits : step.emits[k].entry = e}
                          IN /\ Cardinality(sent) = 1
                             /\ \A k \in sent :
                                   /\ alerts[k].level = ConfiguredLevel(step.indicator, e)
                                   /\ Embeds(alerts[k].description, ProbeErr.err)
                                   /\ actions[k] =
                                         ActionParams(ConfiguredAction(step.indicator, e),
                                                      ConfiguredLevel(step.indicator, e))
                 /\ step.indicator \in VolumeIndicators
                       => \A e \in DOMAIN ConfiguredList(step.indicator) :
                             ConfiguredList(step.indicator)[e].alert_level # "None"
                             => \E i \in DOMAIN step.probes : step.probes[i].entry = e
                 /\ watchPc' = NextPc(watchPc)]_vars
    /\ []((/\ chain # "none"
            /\ (iteration.failedBefore \/ lastStep.failed # {})
            /\ watchPc # "heartbeat"
            /\ alertQueue = <<>>
            /\ actionQueue = <<>>)
           => ENABLED IndicatorStep)

\* In an iteration of the ethereum loop in which the probe of an earlier
\* indicator had failed, the token withdrawal indicator ran: the probe of
\* its first entry failed, its second entry was probed and found above its
\* threshold, and each of the two sent its alert and its action.
C17_Witness ==
    /\ chain = "ethereum"
    /\ iteration.failedBefore
    /\ lastStep.indicator = "token_withdrawals"
    /\ lastStep.failed = {1}
    /\ Len(lastStep.probes) = 2
    /\ Len(lastStep.emits) = 2
    /\ lastStep.emits[2].entry = 2
    /\ Len(alertQueue) = 2
    /\ Len(actionQueue) = 2
    /\ watchPc = "sleep"

\* C27: the commit indicator is skipped (no commit query, no verification,
\* no alert, no action) exactly when invalid_state_commit_alert.alert_level
\* is None, whatever the alert level of the other indicators.
\* check_invalid_commits returns early on account_funds_alert.alert_level:
\* an enabled commit indicator is skipped when the account funds indicator
\* is disabled, and a disabled one runs when it is enabled.
C27_CommitCheckOwnLevel ==
    lastStep.indicator = "invalid_commits" =>
        ((lastStep.probes = <<>> /\ lastStep.emits = <<>>)
            <=> watch_config.invalid_state_commit_alert.alert_level = "None")

\* The half of C27 about a disabled commit indicator that is not affected:
\* with both alert levels None the indicator is skipped.
C27_SkippedWhenBothDisabled ==
    (/\ lastStep.indicator = "invalid_commits"
     /\ watch_config.invalid_state_commit_alert.alert_level = "None"
     /\ watch_config.account_funds_alert.alert_level = "None")
    => (lastStep.probes = <<>> /\ lastStep.emits = <<>>)

\* The step of the iteration in which check_invalid_commits runs; the step
\* records in lastStep.resp what the chain answers when asked for its height.
CommitStep == watchPc = "invalid_commits" /\ watchPc' # watchPc

\* C28: in every iteration of the ethereum loop in which the height of the
\* chain is retrievable, the watermark is set to that height, whatever the
\* indicators are configured to and whatever they find; it is not changed
\* again before the end of the iteration.
\* The update is the last statement of check_invalid_commits: it is not
\* reached when the indicator returns early, on account_funds_alert being
\* disabled or on a failure of the commit query.
C28_WatermarkSetEachIteration ==
    [][/\ (CommitStep /\ lastStep'.resp.ok)
            => last_commit_check_block' = lastStep'.resp.value
       /\ last_commit_check_block' # last_commit_check_block => CommitStep]_vars

\* The part of C28 that holds: the watermark is set to the height whenever
\* check_invalid_commits gets as far as asking for it, and by no other step.
C28_WatermarkSetWhenProbed ==
    [][/\ (CommitStep /\ lastStep'.height = "ok")
            => last_commit_check_block' = lastStep'.resp.value
       /\ last_commit_check_block' # last_commit_check_block => CommitStep]_vars

\* C29: the watermark is advanced only after a successful pass: in an
\* iteration in which the commit query fails, or the verification of one of
\* the hashes it returned fails, the watermark is left where it was.
\* A failure of verify_block_commit does not end the pass: the loop over the
\* hashes goes on and the watermark is set to the height after it.
C29_WatermarkKeptOnFailedPass ==
    [][(CommitStep /\ lastStep'.failed # {})
          => last_commit_check_block' = last_commit_check_block]_vars

\* The part of C29 that holds: the watermark is kept when the commit query
\* fails.
C29_WatermarkKeptOnFailedQuery ==
    [][(CommitStep /\ 0 \in lastStep'.failed)
          => last_commit_check_block' = last_commit_check_block]_vars

\* C22: when the ethereum loop starts, the watermark is
\* max(height, window) - window for the height the chain reports and a
\* window of 86400 / 12 = 7200 blocks: 0 for a height up to the window,
\* height - window above it, and the subtraction does not underflow.
C22_StartWatermark ==
    lastStep.indicator = "start" =>
        LET height == lastStep.resp.value
            window == COMMIT_CHECK_STARTING_OFFSET \div ETHEREUM_BLOCK_TIME
        IN /\ window = 7200
           /\ last_commit_check_block >= 0
           /\ height <= window => last_commit_check_block = 0
           /\ height > window => last_commit_check_block = height - window

\* The ethereum loop has started on a chain one block short of the window.
C22_Witness ==
    /\ chain = "ethereum"
    /\ lastStep.indicator = "start"
    /\ lastStep.resp.value = 7199
    /\ last_commit_check_block = 0
    /\ watchPc = "heartbeat"

\* The calls of verify_block_commit of a step for the i-th returned hash,
\* and what the step sent for it.
VerifyCallsFor(step, i) ==
    {k \in DOMAIN step.probes : /\ step.probes[k].probe = "verify_block_commit"
                                /\ step.probes[k].entry = i}

SentFor(step, i) == {k \in DOMAIN step.emits : step.emits[k].entry = i}

\* C30: when the commit query of check_invalid_commits has returned its
\* hashes, verify_block_commit is called once for every one of them; a hash
\* the fuel chain does not know sends exactly one alert, at the level of
\* invalid_state_commit_alert and naming the hash, and exactly one action of
\* its configured kind; a hash the chain knows sends nothing; and this is so
\* for every hash whatever the verification of another hash returned, an
\* error included.
C30_EveryCommitVerified ==
    [][(lastStep' # lastStep /\ lastStep'.indicator = "invalid_commits")
        => LET step == lastStep'
               c == watch_config.invalid_state_commit_alert
               alerts == Sent(alertQueue, alertQueue')
               actions == Sent(actionQueue, actionQueue')
           IN /\ alerts = AlertsOf(step.emits)
              /\ actions = ActionsOf(step.emits)
              /\ \A i \in DOMAIN step.verdicts :
                    /\ Cardinality(VerifyCallsFor(step, i)) = 1
                    /\ step.verdicts[i] = "valid" => SentFor(step, i) = {}
                    /\ step.verdicts[i] = "invalid" =>
                          /\ Cardinality(SentFor(step, i)) = 1
                          /\ \A k \in SentFor(step, i) :
                                /\ alerts[k].name =
                                      <<"Invalid commit was made on the state contract">>
                                /\ alerts[k].level = c.alert_level
                                /\ actions[k] = ActionParams(c.alert_action, c.alert_level)]_vars

\* The state contract returned two hashes: the verification of the first
\* failed, the fuel chain did not know the second, and the step sent the
\* failure alert for the first and the invalid commit alert for the second.
C30_Witness ==
    /\ lastStep.indicator = "invalid_commits"
    /\ lastStep.verdicts = <<"err", "invalid">>
    /\ Len(lastStep.emits) = 2
    /\ lastStep.emits[2].entry = 2
    /\ lastStep.emits[2].alert.name = <<"Invalid commit was made on the state contract">>
    /\ Len(alertQueue) = 2
    /\ Len(actionQueue) = 2

\* The order of the indicators of each chain, as the claim C31 lists them.
SettlementIndicators ==
    <<"connection", "block_production", "account_balance", "invalid_commits",
      "base_deposits", "base_withdrawals", "token_deposits", "token_withdrawals">>

RollupIndicators ==
    <<"connection", "block_production", "base_withdrawals", "token_withdrawals">>

IterationSteps ==
    <<"heartbeat">>
    \o (IF chain = "ethereum" THEN SettlementIndicators ELSE RollupIndicators)
    \o <<"sleep">>

StepIndex(indicator) ==
    IF \E k \in DOMAIN IterationSteps : IterationSteps[k] = indicator
    THEN CHOOSE k \in DOMAIN IterationSteps : IterationSteps[k] = indicator
    ELSE 0

\* C31: an iteration of a watch loop first sends the heartbeat alert, at
\* level Info, and then runs the indicators of its chain in the one order
\* settlement: connection, block production, account balance, commits, base
\* deposits, base withdrawals, token deposits, token withdrawals; rollup:
\* connection, block production, base withdrawals, token withdrawals. Every
\* step appends what it sends to the alert channel, so the alerts of an
\* iteration are in the channel in the order of the steps.
C31_FixedOrder ==
    [][lastStep' # lastStep
        => LET before == StepIndex(lastStep.indicator)
               after == StepIndex(lastStep'.indicator)
               alerts == Sent(alertQueue, alertQueue')
           IN /\ after > 0
              /\ after = (IF before \in {0, Len(IterationSteps)} THEN 1 ELSE before + 1)
              /\ SubSeq(alertQueue', 1, Len(alertQueue)) = alertQueue
              /\ after = 1 => /\ Len(alerts) = 1
                              /\ alerts[1].level = "Info"
                              /\ alerts[1].name \in {<<"Watching ethereum chain.">>,
                                                     <<"Watching fuel chain.">>}
              /\ after \in 2..(Len(IterationSteps) - 1)
                    => alerts = AlertsOf(lastStep'.emits)
              /\ after = Len(IterationSteps) => alerts = <<>>]_vars

\* The ethereum loop is at the end of an iteration, after the token
\* withdrawal indicator has sent an alert; the fuel loop likewise.
C31_Witness ==
    /\ chain = "ethereum"
    /\ watchPc = "sleep"
    /\ lastStep.indicator = "token_withdrawals"
    /\ Len(alertQueue) > 0
    /\ iteration.n = 2

Threshold(c) == get_value(c.amount, c.token_decimals)

ProbesFor(step, e) == {k \in DOMAIN step.probes : step.probes[k].entry = e}

\* C36: a volume indicator (base asset and token deposits and withdrawals of
\* the ethereum loop, base asset and token withdrawals of the fuel loop)
\* makes exactly one probe for every entry of its list whose alert level is
\* not None, and none for the others; when the probe returns an amount, the
\* entry sends one alert and one action, at its level and of its kind, if
\* the amount is at or above its threshold, and nothing if it is below; this
\* holds for every entry, whatever the entries before it are or return.
C36_VolumeBreach ==
    [][(lastStep' # lastStep /\ lastStep'.indicator \in VolumeIndicators)
        => LET step == lastStep'
               list == ConfiguredList(step.indicator)
               alerts == Sent(alertQueue, alertQueue')
               actions == Sent(actionQueue, actionQueue')
           IN /\ alerts = AlertsOf(step.emits)
              /\ actions = ActionsOf(step.emits)
              /\ DOMAIN step.amounts = DOMAIN list
              /\ \A e \in DOMAIN list :
                    LET c == list[e]
                        sent == SentFor(step, e)
                    IN /\ c.alert_level = "None" =>
                             (ProbesFor(step, e) = {} /\ sent = {})
                       /\ c.alert_level # "None" => Cardinality(ProbesFor(step, e)) = 1
                       /\ (c.alert_level # "None" /\ e \notin step.failed) =>
                             /\ step.amounts[e] # NotObserved
                             /\ step.amounts[e] >= Threshold(c) <=> Cardinality(sent) = 1
                             /\ step.amounts[e] < Threshold(c) <=> sent = {}
                             /\ \A k \in sent :
                                   /\ alerts[k].level = c.alert_level
                                   /\ actions[k] = ActionParams(c.alert_action,
                                                                c.alert_level)]_vars

\* The base asset withdrawal indicator of the fuel loop ran with its first
\* entry disabled: the amount of the second was equal to its threshold, and
\* the entry sent its alert and its action.
C36_Witness ==
    /\ chain = "fuel"
    /\ lastStep.indicator = "base_withdrawals"
    /\ watch_config.portal_withdraw_alerts[1].alert_level = "None"
    /\ lastStep.amounts = <<NotObserved, Threshold(watch_config.portal_withdraw_alerts[2])>>
    /\ Len(lastStep.probes) = 1
    /\ Len(lastStep.emits) = 1
    /\ lastStep.emits[1].entry = 2
    /\ Len(alertQueue) = 1
    /\ Len(actionQueue) = 1

(***************************************************************************)
(* lib.rs: the two channels end to end, from the producers to the exit of  *)
(* the consumers                                                           *)
(***************************************************************************)
MaxRounds == 2      \* alert/action pairs the ethereum loop sends in one behaviour

\* The tasks that send on both channels: the two watch loops.
Producers == {"ethereum", "fuel"}

\* What a producer sends in a round: an alert, then an action at the level
\* of the alert, as the indicators do. Rounds are numbered downwards, by the
\* sends the producer has left.
ProducerAlertType(p) ==
    IF p = "ethereum" THEN "EthereumBlockProduction" ELSE "FuelBlockProduction"

ProducerLevel(p, r) ==
    IF p = "ethereum" THEN (IF r % 2 = 1 THEN "Error" ELSE "Warn") ELSE "Info"

ProducerAction(p, r) ==
    IF p = "ethereum"
    THEN (IF r = 1 THEN "PauseState" ELSE "None")
    ELSE (IF r = 1 THEN "None" ELSE "PausePortal")

\* pub static THREAD_CONNECTIONS_ERR
THREAD_CONNECTIONS_ERR ==
    <<"Connections to the ethereum actions thread have all closed.">>

\* What becomes of the process when a spawned task panics: the runtime
\* catches a panic that unwinds and the process runs on; a build that aborts
\* on panic ends the process.
PanicOutcomes == {"running", "aborted"}

\* run() after it has wired the components, with the sends the producers
\* are going to make.
Started(sends) ==
    /\ now = 0
    /\ alertQueue = <<>>
    /\ AlerterIdle
    /\ ActionsIdle
    /\ WatchIdle
    /\ senders = AllSenders
    /\ tasks = [alerter |-> "running", dispatcher |-> "running", process |-> "running"]
    /\ budget = sends
    /\ Deployed

\* A producer whose send waits until the consumers have taken everything
\* sent before: channels without a buffer.
ProducerSendsRendezvous(p) ==
    /\ tasks.process = "running"
    /\ p \in senders.alerts
    /\ p \in senders.actions
    /\ budget[p] > 0
    /\ alertQueue = <<>>
    /\ actionQueue = <<>>
    /\ dispatcher.pc = "recv"
    /\ LET r == (budget[p] + 1) \div 2
       IN IF budget[p] % 2 = 0
          THEN /\ alertQueue' = send_alert(alertQueue,
                                    <<"Indicator alert ", p, ToString(r)>>,
                                    ProducerLevel(p, r), ProducerAlertType(p))
               /\ UNCHANGED actionQueue
          ELSE /\ actionQueue' = send_action(actionQueue, ProducerAction(p, r),
                                             ProducerLevel(p, r))
               /\ UNCHANGED alertQueue
    /\ budget' = [budget EXCEPT ![p] = @ - 1]
    /\ UNCHANGED <<now, alerterVars, dispatcher, pauseCalls, abandoned, commands,
                   watchVars, senders, tasks, contracts>>

\* A producer makes its next send: send_alert, then send_action.
ProducerSends(p) ==
    /\ tasks.process = "running"
    /\ p \in senders.alerts
    /\ p \in senders.actions
    /\ budget[p] > 0
    /\ LET r == (budget[p] + 1) \div 2
       IN IF budget[p] % 2 = 0
          THEN /\ alertQueue' = send_alert(alertQueue,
                                    <<"Indicator alert ", p, ToString(r)>>,
                                    ProducerLevel(p, r), ProducerAlertType(p))
               /\ UNCHANGED actionQueue
          ELSE /\ actionQueue' = send_action(actionQueue, ProducerAction(p, r),
                                             ProducerLevel(p, r))
               /\ UNCHANGED alertQueue
    /\ budget' = [budget EXCEPT ![p] = @ - 1]
    /\ UNCHANGED <<now, alerterVars, dispatcher, pauseCalls, abandoned, commands,
                   watchVars, senders, tasks, contracts>>

\* The task of a watch loop ends: its loop has no exit, so it ends by a
\* panic, and the senders moved into it are dropped.
ProducerEnds(p) ==
    /\ tasks.process = "running"
    /\ p \in senders.alerts
    /\ senders' = [alerts |-> senders.alerts \ {p}, actions |-> senders.actions \ {p}]
    /\ \E outcome \in PanicOutcomes : tasks' = [tasks EXCEPT !.process = outcome]
    /\ UNCHANGED <<now, alertQueue, alerterVars, actionVars, watchVars, budget, contracts>>

\* handle_watcher_threads awaits ethereum_thread, and fuel_thread after it:
\* the JoinHandle of the ethereum loop returns once its task has ended, with
\* the Err of its panic, and run() unwraps the Err that comes back. The
\* WatchtowerAlerter and the WatchtowerEthereumActions run() owns are
\* dropped, and their senders with them.
RunEnds ==
    /\ tasks.process = "running"
    /\ "run" \in senders.alerts
    /\ "ethereum" \notin senders.alerts
    /\ senders' = [alerts |-> senders.alerts \ {"run"},
                   actions |-> senders.actions \ {"run"}]
    /\ \E outcome \in PanicOutcomes : tasks' = [tasks EXCEPT !.process = outcome]
    /\ UNCHANGED <<now, alertQueue, alerterVars, actionVars, watchVars, budget, contracts>>

\* start_alert_handling_thread: rx.recv() returns None (the channel is empty
\* and every sender is dropped), the while let loop and the task end.
AlerterExit ==
    /\ Running("alerter")
    /\ alertQueue = <<>>
    /\ senders.alerts = {}
    /\ tasks' = [tasks EXCEPT !.alerter = "ended"]
    /\ UNCHANGED <<now, alertQueue, alerterVars, actionVars, watchVars, senders, budget, contracts>>

\* start_action_handling_thread: rx.recv() returns None, the loop ends, the
\* task sends the Error alert and panics; its clone of the alert sender is
\* dropped with it.
DispatcherExit ==
    /\ Running("dispatcher")
    /\ dispatcher.pc = "recv"
    /\ actionQueue = <<>>
    /\ senders.actions = {}
    /\ alertQueue' = send_alert(alertQueue, THREAD_CONNECTIONS_ERR, "Error",
                                "EthereumActionsThreadFailed")
    /\ \E outcome \in PanicOutcomes :
          tasks' = [tasks EXCEPT !.dispatcher = "panicked", !.process = outcome]
    /\ senders' = [senders EXCEPT !.alerts = @ \ {"dispatcher"}]
    /\ UNCHANGED <<now, alerterVars, actionVars, watchVars, budget, contracts>>

\* The channels in operation: both loops send, both consumers run.
InitPipeline == Started([ethereum |-> 2 * MaxRounds, fuel |-> 2])

NextPipeline ==
    \/ \E p \in Producers : ProducerSends(p)
    \/ HandleAlert
    \/ RecvAction
    \/ FinishPause
    \/ LateResult

SpecPipeline == InitPipeline /\ [][NextPipeline]_vars

\* The channels at the end of run(): the ethereum loop has an alert and an
\* action left to send, and the holders of the senders go away in any order.
InitShutdown == Started([ethereum |-> 2, fuel |-> 0])

NextShutdown ==
    \/ \E p \in Producers : ProducerSends(p)
    \/ \E p \in Producers : ProducerEnds(p)
    \/ RunEnds
    \/ HandleAlert
    \/ RecvAction
    \/ FinishPause
    \/ LateResult
    \/ AlerterExit
    \/ DispatcherExit

SpecShutdown == InitShutdown /\ [][NextShutdown]_vars

(***************************************************************************)
(* Claims about the channels (SpecShutdown, SpecPipeline)                  *)
(***************************************************************************)

\* C14: when every sender of the alert channel has been dropped, the alert
\* worker writes an error to the log and terminates the process.
\* The while let loop of start_alert_handling_thread is the last statement
\* of the task: the task ends without a log line and the process runs on.
C14_AlertWorkerWiringFailure ==
    [][(tasks.alerter = "running" /\ tasks'.alerter = "ended")
          => (Len(log') > Len(log) /\ tasks'.process = "aborted")]_vars

\* The step in which the dispatcher finds its channel closed.
DispatcherEnds == tasks.dispatcher = "running" /\ tasks'.dispatcher # "running"

\* C15: when every sender of the action channel is gone, the dispatcher
\* reports it with an Error alert and terminates the process.
\* The task reports and panics, and the panic of a spawned task ends the
\* process only in a build that aborts on panic.
C15_DispatcherWiringFailure ==
    [][DispatcherEnds
          => /\ alertQueue' = Append(alertQueue,
                    AlertParams(THREAD_CONNECTIONS_ERR, "Error",
                                "EthereumActionsThreadFailed"))
             /\ tasks'.process = "aborted"]_vars

\* The part of C15 that holds in every build: the closed channel is found
\* only once every command sent was handled, it is reported with an Error
\* alert, and the task is gone.
C15_ReportedAndPanicked ==
    [][DispatcherEnds
          => /\ alertQueue' = Append(alertQueue,
                    AlertParams(THREAD_CONNECTIONS_ERR, "Error",
                                "EthereumActionsThreadFailed"))
             /\ actionQueue = <<>>
             /\ senders.actions = {}
             /\ tasks'.dispatcher = "panicked"]_vars

\* C21: a watch loop task that has failed is fatal for the process: once
\* either task has ended, the wait of run() on the handles of the loops can
\* return its error, while the other loop is still running too.
\* handle_watcher_threads awaits ethereum_thread first: it does not look at
\* fuel_thread as long as the ethereum loop runs.
C21_WatcherFailureIsFatal ==
    \A p \in Producers :
        (/\ p \notin senders.alerts
         /\ "run" \in senders.alerts
         /\ tasks.process = "running")
        => ENABLED RunEnds

\* The part of C21 that holds: the failure of the ethereum loop ends the wait.
C21_EthereumFailureIsFatal ==
    (/\ "ethereum" \notin senders.alerts
     /\ "run" \in senders.alerts
     /\ tasks.process = "running")
    => ENABLED RunEnds

\* C23: sending an alert or an action never blocks the producer: a loop
\* that has something left to send can send it in every state, whatever is
\* waiting in the two channels and while the dispatcher awaits a pause()
\* call, and the send changes nothing but the channel it appends to.
C23_SendNeverBlocks ==
    /\ [](\A p \in Producers :
            (budget[p] > 0 /\ tasks.process = "running" /\ p \in senders.alerts)
            => ENABLED ProducerSends(p))
    /\ [][(\E p \in Producers : budget'[p] < budget[p])
            => /\ \/ /\ Len(alertQueue') = Len(alertQueue) + 1
                     /\ SubSeq(alertQueue', 1, Len(alertQueue)) = alertQueue
                     /\ actionQueue' = actionQueue
                  \/ /\ Len(actionQueue') = Len(actionQueue) + 1
                     /\ SubSeq(actionQueue', 1, Len(actionQueue)) = actionQueue
                     /\ alertQueue' = alertQueue
               /\ UNCHANGED <<now, alerterVars, dispatcher, pauseCalls, abandoned,
                              commands>>]_vars

\* The ethereum loop has made all its sends while the dispatcher awaits the
\* pause() of its first command and no alert has been processed: its later
\* alerts and commands wait in the channels.
C23_Witness ==
    /\ budget.ethereum = 0
    /\ dispatcher.pc = "await"
    /\ handled = <<>>
    /\ Len(alertQueue) >= MaxRounds
    /\ actionQueue # <<>>

\* The alerts of producer p the consumer has processed, and the commands of
\* producer p the dispatcher has received, in the order of processing.
HandledOf(p) ==
    SelectSeq(handled, LAMBDA h : h.params.alert_type = ProducerAlertType(p))

CommandsOf(p) ==
    SelectSeq(commands, LAMBDA c : (c.alert_level = "Info") <=> (p = "fuel"))

\* The round of the k-th send of a kind by producer p.
RoundOf(p, k) == (IF p = "ethereum" THEN MaxRounds ELSE 1) - k + 1

\* C16: the alerts one producer sent are processed by the alert consumer in
\* the order it sent them, the commands one producer sent are handled by the
\* dispatcher in the order it sent them, and alerts are processed one at a
\* time: every change of the cache, the log or the pages is the processing
\* of the alert at the head of the channel, whole.
C16_FifoPerProducer ==
    /\ [](\A p \in Producers :
            /\ \A k \in DOMAIN HandledOf(p) :
                  HandledOf(p)[k].params =
                      AlertParams(<<"Indicator alert ", p, ToString(RoundOf(p, k))>>,
                                  ProducerLevel(p, RoundOf(p, k)), ProducerAlertType(p))
            /\ \A k \in DOMAIN CommandsOf(p) :
                  /\ CommandsOf(p)[k].action = ProducerAction(p, RoundOf(p, k))
                  /\ CommandsOf(p)[k].alert_level = ProducerLevel(p, RoundOf(p, k)))
    /\ [][(log' # log \/ pages' # pages \/ alert_cache' # alert_cache
              \/ handled' # handled)
            => /\ alertQueue # <<>>
               /\ alertQueue' = Tail(alertQueue)
               /\ Len(handled') = Len(handled) + 1
               /\ SubSeq(handled', 1, Len(handled)) = handled
               /\ handled'[Len(handled')].params = Head(alertQueue)]_vars

\* Both alerts of the ethereum loop were processed with the alert of the
\* fuel loop between them, and its two commands and the command of the fuel
\* loop were handled to the end.
C16_Witness ==
    /\ \E i, j, k \in DOMAIN handled :
          /\ i < j /\ j < k
          /\ handled[i].params.alert_type = ProducerAlertType("ethereum")
          /\ handled[j].params.alert_type = ProducerAlertType("fuel")
          /\ handled[k].params.alert_type = ProducerAlertType("ethereum")
    /\ Len(CommandsOf("ethereum")) = 2
    /\ Len(CommandsOf("fuel")) = 1
    /\ \A c \in DOMAIN commands : commands[c].done

(***************************************************************************)
(* An indicator whose breach or probe failure persists: iterations of the  *)
(* ethereum loop in which the block production indicator, the one enabled, *)
(* sends its alert and its action, with the two consumers                  *)
(***************************************************************************)
MaxRepeats == 2     \* consecutive iterations in which the indicator sends

\* The configuration of the loop: block production at level Error with the
\* action PauseState, every other indicator disabled.
PersistingConfig ==
    EthereumClientWatcher([x \in EthSlots |->
                              IF x = "block_production" THEN "Error" ELSE "None"],
                          "PauseState")

\* What get_seconds_since_last_block answers while the condition persists:
\* an error, or more seconds than max_block_time.
PersistingAnswers == {ProbeErr, ProbeOk(21)}

\* The alerter is constructed with a window of three iterations.
InitPersisting ==
    /\ now = 0
    /\ alertQueue = <<>>
    /\ alert_cache_expiry = 3 * POLL_DURATION
    /\ allowed_alerting_start_time = 0
    /\ alert_cache = <<>>
    /\ log = <<>>
    /\ pages = <<>>
    /\ handled = <<>>
    /\ alerterTask = NoAlert
    /\ ActionsIdle
    /\ WatchIdle
    /\ senders = AllSenders
    /\ tasks = [alerter |-> "running", dispatcher |-> "running", process |-> "running"]
    /\ budget = [ethereum |-> MaxRepeats, fuel |-> 0]
    /\ Deployed

\* One iteration of the ethereum loop, from check_block_production on: the
\* indicator sends its alert, of the category EthereumBlockProduction, and
\* its action, the other indicators return at their test of the alert level,
\* and the loop sleeps.
PersistingIteration ==
    /\ tasks.process = "running"
    /\ "ethereum" \in senders.alerts
    /\ "ethereum" \in senders.actions
    /\ budget.ethereum > 0
    /\ \E resp \in PersistingAnswers :
          LET r == check_block_production(PersistingConfig, resp)
          IN IF r.emits = <<>>
             THEN UNCHANGED <<alertQueue, actionQueue>>
             ELSE /\ alertQueue' = send_alert(alertQueue, r.emits[1].alert.name,
                                              r.emits[1].alert.level,
                                              "EthereumBlockProduction")
                  /\ actionQueue' = send_action(actionQueue,
                                        PersistingConfig.block_production_alert.alert_action,
                                        PersistingConfig.block_production_alert.alert_level)
    /\ budget' = [budget EXCEPT !.ethereum = @ - 1]
    /\ now' = now + POLL_DURATION
    /\ UNCHANGED <<alerterVars, dispatcher, pauseCalls, abandoned, commands, watchVars,
                   senders, tasks, contracts>>

NextPersisting ==
    \/ PersistingIteration
    \/ HandleAlert
    \/ RecvAction
    \/ FinishPause
    \/ LateResult

SpecPersisting == InitPersisting /\ [][NextPersisting]_vars

\* The iterations made, and the alerts of the indicator that were processed.
IterationsMade == MaxRepeats - budget.ethereum

IndicatorAlerts ==
    {i \in DOMAIN handled : handled[i].params.alert_type = "EthereumBlockProduction"}

\* C37: action commands are not deduplicated. When the breach or the probe
\* failure of an indicator goes on for k iterations the loop sends k
\* commands, each is in the channel or received by the dispatcher, and the
\* dispatcher invokes pause() once for each command it has handled; of the k
\* alerts that go with them, two processed less than alert_cache_expiry
\* apart are not both paged.
C37_ActionsNotDeduplicated ==
    /\ Len(commands) + Len(actionQueue) = IterationsMade
    /\ \A i \in DOMAIN actionQueue :
          actionQueue[i] = ActionParams("PauseState", "Error")
    /\ \A c \in DOMAIN commands :
          /\ commands[c].action = "PauseState"
          /\ commands[c].alert_level = "Error"
          /\ Len(CallsOfCommand(c)) = 1
          /\ CallsOfCommand(c)[1].contract = "state"
    /\ Len(pauseCalls) = Len(commands)
    /\ \A i \in IndicatorAlerts, j \in IndicatorAlerts :
          (i < j /\ handled[j].at - handled[i].at < alert_cache_expiry)
          => handled[i].paged + handled[j].paged <= 1

\* The indicator sent in two consecutive iterations: the two commands were
\* handled with a pause() call each, and of the two alerts, processed in one
\* window, the first was paged and the second was not.
C37_Witness ==
    /\ IterationsMade = 2
    /\ Len(commands) = 2
    /\ \A c \in DOMAIN commands : commands[c].done
    /\ Len(pauseCalls) = 2
    /\ \E i \in IndicatorAlerts, j \in IndicatorAlerts :
          /\ i < j
          /\ handled[j].at - handled[i].at < alert_cache_expiry
          /\ handled[i].paged = 1
          /\ handled[j].paged = 0

(***************************************************************************)
(* The dispatcher with more than one command: commands wait in the channel *)
(* while the pause() of an earlier one is awaited                          *)
(***************************************************************************)
MaxBacklog == 2     \* commands sent to the dispatcher in one behaviour

\* The commands sent: pauses of one contract, at level Error.
BacklogActions == {"PauseState", "PauseGateway"}

InitBacklog ==
    /\ now = 0
    /\ alertQueue = <<>>
    /\ AlerterIdle
    /\ ActionsIdle
    /\ WatchIdle
    /\ Wired
    /\ Deployed

\* A producer calls send_action(sender, action, Some(Error)).
SubmitBacklog ==
    /\ senders.actions # {}
    /\ Len(actionQueue) + Len(commands) < MaxBacklog
    /\ \E action \in BacklogActions :
          actionQueue' = send_action(actionQueue, action, "Error")
    /\ UNCHANGED <<lifeVars, now, alertQueue, alerterVars, dispatcher, pauseCalls, abandoned,
                   commands, watchVars>>

NextBacklog == SubmitBacklog \/ RecvAction \/ FinishPause \/ LateResult

\* The dispatcher task is scheduled: a command in the channel is received
\* when the task is in rx.recv(), and the await of timeout(30 s, ..) ends.
SpecBacklog ==
    /\ InitBacklog
    /\ [][NextBacklog]_vars
    /\ WF_vars(RecvAction)
    /\ WF_vars(FinishPause)

\* The pause() calls the dispatcher is waiting for.
InFlight == {k \in DOMAIN pauseCalls : pauseCalls[k].outcome = "pending"}

\* C38: the dispatcher handles its commands one at a time, with at most one
\* pause() call awaited at any moment, which is of the command received
\* last; no await lasts longer than the 30 seconds of the timeout; and every
\* command sent is received and handled to its end, also when the pause() of
\* a command before it never resolves.
C38_OneAtATimeToCompletion ==
    /\ [](/\ Cardinality(InFlight) <= 1
          /\ InFlight # {} <=> dispatcher.pc = "await"
          /\ \A k \in InFlight : k = Len(pauseCalls) /\ pauseCalls[k].cmd = Len(commands)
          /\ \A c \in DOMAIN commands : c < Len(commands) => commands[c].done
          /\ \A k \in DOMAIN pauseCalls : pauseCalls[k].elapsed <= PauseTimeout)
    /\ \A n \in 1..MaxBacklog :
          (Len(commands) + Len(actionQueue) >= n)
             ~> (Len(commands) >= n /\ commands[n].done)

\* The pause() of the first command never resolved and timed out, and the
\* second command, sent while it was awaited, was handled to its end.
C38_Witness ==
    /\ Len(commands) = 2
    /\ commands[2].done
    /\ Len(pauseCalls) = 2
    /\ ~pauseCalls[1].behaviour.resolves
    /\ pauseCalls[1].outcome = "timeout"
    /\ pauseCalls[2].outcome = "ok"
    /\ pauseCalls[2].at >= pauseCalls[1].at + PauseTimeout

(***************************************************************************)
(* check_invalid_commits against a chain that produces blocks while it     *)
(* runs.  A commit is named by the height of the block that holds its log. *)
(***************************************************************************)
MaxBlocks == 3      \* blocks the ethereum chain produces in one behaviour

ScanStart == 7200   \* the height of the chain when the loop starts

\* The loop's configuration: the commit indicator at Error.
ScanConfig ==
    EthereumClientWatcher([x \in EthSlots |-> "Error"], "None")

\* StateContract::get_latest_commits(from_block): the CommitSubmitted logs of
\* the blocks from from_block, included, to the latest block, in the order
\* of the chain.
RECURSIVE LogsBetween(_, _, _)
LogsBetween(commitLogs, from_block, latest) ==
    IF from_block > latest THEN <<>>
    ELSE (IF from_block \in commitLogs THEN <<from_block>> ELSE <<>>)
            \o LogsBetween(commitLogs, from_block + 1, latest)

get_latest_commits(node, from_block) ==
    LogsBetween(node.commits, from_block, node.head)

\* EthereumChain::get_latest_block_number
get_latest_block_number(node) == ProbeOk(node.head)

InitScan ==
    /\ now = 0
    /\ alertQueue = <<>>
    /\ AlerterIdle
    /\ ActionsIdle
    /\ Wired
    /\ Deployed
    /\ chain = "ethereum"
    /\ watch_config = ScanConfig
    /\ account_address = FALSE
    /\ watchPc = "none"
    /\ lastStep = NoStep
    /\ iteration = [n |-> 0, startWatermark |-> 0, height |-> "unprobed",
                    failedBefore |-> FALSE, failedLast |-> FALSE]
    /\ last_commit_check_block \in {ScanStart - 1, ScanStart}
    /\ \E logs \in SUBSET {ScanStart - 1, ScanStart} :
         ethereumNode = [head |-> ScanStart, commits |-> logs, pc |-> "query",
                         initial |-> last_commit_check_block,
                         queried |-> <<>>, at |-> 0, gap |-> 0, returned |-> {}]
    /\ fuelNode = [blocks |-> <<>>, asset_withdrawal_cache |-> <<>>, calls |-> <<>>]

\* The chain produces a block, with a commit in it or without.
MineBlock ==
    /\ ethereumNode.head < ScanStart + MaxBlocks
    /\ \E commit \in BOOLEAN :
         ethereumNode' =
            [ethereumNode EXCEPT !.head = @ + 1,
                                 !.commits = IF commit
                                             THEN @ \cup {ethereumNode.head + 1}
                                             ELSE @]
    /\ UNCHANGED <<lifeVars, now, alertQueue, alerterVars, actionVars, chain, watch_config,
                   account_address, last_commit_check_block, watchPc, lastStep, iteration,
                   fuelNode>>

\* check_invalid_commits up to the end of its loop over the hashes: the
\* query of the commits from the watermark, and their verification.
ScanCommits ==
    /\ ethereumNode.pc = "query"
    /\ LET hashes == get_latest_commits(ethereumNode, last_commit_check_block)
       IN ethereumNode' =
             [ethereumNode EXCEPT !.pc = "height",
                                  !.queried = hashes,
                                  !.at = ethereumNode.head,
                                  !.returned = @ \cup {hashes[i] : i \in DOMAIN hashes}]
    /\ UNCHANGED <<lifeVars, now, alertQueue, alerterVars, actionVars, chain, watch_config,
                   account_address, last_commit_check_block, watchPc, lastStep, iteration,
                   fuelNode>>

\* check_invalid_commits from the end of the loop: every commit was found
\* valid, so that nothing was sent, and the watermark becomes the latest
\* height.
ScanHeight ==
    /\ ethereumNode.pc = "height"
    /\ LET r == check_invalid_commits(watch_config, last_commit_check_block,
                                      [ok |-> TRUE, hashes |-> ethereumNode.queried],
                                      [h \in ethereumNode.commits |-> "valid"],
                                      get_latest_block_number(ethereumNode))
       IN /\ last_commit_check_block' = r.watermark
          /\ ethereumNode' =
                [ethereumNode EXCEPT !.pc = "query",
                                     !.gap = Max(@, ethereumNode.head - ethereumNode.at)]
    /\ UNCHANGED <<lifeVars, now, alertQueue, alerterVars, actionVars, chain, watch_config,
                   account_address, watchPc, lastStep, iteration, fuelNode>>

NextScan == MineBlock \/ ScanCommits \/ ScanHeight

SpecScan == InitScan /\ [][NextScan]_vars

\* The commits of the blocks behind the watermark that no query returned.
SkippedCommits ==
    {h \in ethereumNode.commits :
        /\ h >= ethereumNode.initial
        /\ h < last_commit_check_block
        /\ h \notin ethereumNode.returned}

\* C39: with every probe succeeding, no commit is skipped as the watermark
\* advances: every commit posted in a block at or above the initial
\* watermark and below the current one was returned by the commit query of
\* some iteration, also when blocks were produced between the commit query
\* and the query of the latest height of an iteration.
C39_NoCommitSkipped ==
    ethereumNode.pc \in {"query", "height"} => SkippedCommits = {}

\* C39, as far as it holds: no commit is skipped as long as no iteration saw
\* more than one block produced between its two queries; the block of the
\* new watermark is queried again by the next iteration.
C39_NoCommitSkippedByOneBlock ==
    (ethereumNode.pc \in {"query", "height"} /\ ethereumNode.gap <= 1)
        => SkippedCommits = {}

\* A block with a commit was produced between the two queries of an
\* iteration, and the next iteration returned its commit.
C39_WitnessOneBlock ==
    /\ ethereumNode.pc = "height"
    /\ ethereumNode.gap = 1
    /\ last_commit_check_block \in ethereumNode.commits
    /\ last_commit_check_block \in ethereumNode.returned
    /\ last_commit_check_block > ScanStart

(***************************************************************************)
(* fuel_chain.rs: FuelChain::get_base_amount_withdrawn and its cache       *)
(***************************************************************************)
MaxFuelBlocks == 6  \* blocks of the fuel chain in one behaviour
MaxCalls == 2       \* calls of get_base_amount_withdrawn in one behaviour

FUEL_BLOCK_TIME == 1

\* u64::MAX, the value of earliest_needed_timestamp when nothing of the cache
\* is needed: a number above every timestamp.
U64_MAX == 2147483647

\* The time frames of the calls, in seconds, and the base asset a block
\* withdraws.
TimeFrames == {2, 3}
BlockAmounts == {0, 5}

\* The timestamp of the first block, and the blocks of the chain when the
\* FuelChain is constructed: more than the longest time frame covers.
FuelStart == 100
FuelHeight == 4

RECURSIVE SumOver(_, _)
SumOver(f, S) ==
    IF S = {} THEN 0
    ELSE LET x == CHOOSE x \in S : TRUE
         IN f[x] + SumOver(f, S \ {x})

\* provider.get_blocks(PaginationRequest { cursor: None, results,
\* direction: Backward }): the latest blocks, the newest first.
get_blocks(blocks, results) ==
    [i \in 1..(IF results < Len(blocks) THEN results ELSE Len(blocks)) |->
        blocks[Len(blocks) - i + 1]]

\* *base_token_cache.entry(block_timestamp).or_insert(0) += block_total, for
\* the blocks fetched from the i-th on
RECURSIVE CacheBlocks(_, _, _)
CacheBlocks(cache, fetched, i) ==
    IF i > Len(fetched) THEN cache
    ELSE LET t == fetched[i].time
             entry == IF t \in DOMAIN cache THEN cache[t] ELSE 0
         IN CacheBlocks([x \in DOMAIN cache \cup {t} |->
                            IF x = t THEN entry + fetched[i].amount ELSE cache[x]],
                        fetched, i + 1)

\* FuelChain::get_base_amount_withdrawn(timeframe) with every call of the
\* provider succeeding: the total returned and the cache it leaves.
get_base_amount_withdrawn(blocks, cache, timeframe) ==
    LET current_timestamp == blocks[Len(blocks)].time
        start_timestamp == IF current_timestamp > timeframe
                           THEN current_timestamp - timeframe ELSE 0
        needed == {t \in DOMAIN cache : t >= start_timestamp}
        total_from_cache == SumOver(cache, needed)
        earliest_needed_timestamp ==
            IF needed = {} THEN U64_MAX
            ELSE CHOOSE t \in needed : \A u \in needed : t <= u
    IN IF earliest_needed_timestamp <= start_timestamp
       THEN [value |-> total_from_cache, cache |-> cache, fetched |-> 0]
       ELSE LET adjusted_timeframe ==
                    IF earliest_needed_timestamp = U64_MAX THEN timeframe
                    ELSE (earliest_needed_timestamp - start_timestamp) \div FUEL_BLOCK_TIME
                fetched == get_blocks(blocks, adjusted_timeframe)
                total_from_blocks ==
                    SumOver([i \in DOMAIN fetched |-> fetched[i].amount], DOMAIN fetched)
            IN [value |-> total_from_cache + total_from_blocks,
                cache |-> CacheBlocks(cache, fetched, 1),
                fetched |-> Len(fetched)]

InitFuel ==
    /\ now = 0
    /\ alertQueue = <<>>
    /\ AlerterIdle
    /\ ActionsIdle
    /\ Wired
    /\ Deployed
    /\ chain = "fuel"
    /\ watch_config = <<>>
    /\ account_address = FALSE
    /\ last_commit_check_block = 0
    /\ watchPc = "none"
    /\ lastStep = NoStep
    /\ iteration = [n |-> 0, startWatermark |-> 0, height |-> "unprobed",
                    failedBefore |-> FALSE, failedLast |-> FALSE]
    /\ ethereumNode = [head |-> 0, commits |-> {}, pc |-> "idle", initial |-> 0,
                       queried |-> <<>>, at |-> 0, gap |-> 0, returned |-> {}]
    /\ \E amounts \in [1..FuelHeight -> BlockAmounts] :
         fuelNode = [blocks |-> [i \in 1..FuelHeight |->
                                   [time |-> FuelStart + (i - 1) * FUEL_BLOCK_TIME,
                                    amount |-> amounts[i]]],
                     asset_withdrawal_cache |-> <<>>,
                     calls |-> <<>>]

\* The fuel chain produces a block, FUEL_BLOCK_TIME after the one before.
ProduceBlock ==
    /\ Len(fuelNode.blocks) < MaxFuelBlocks
    /\ \E amount \in BlockAmounts :
         fuelNode' =
            [fuelNode EXCEPT
               !.blocks = Append(@, [time |-> @[Len(@)].time + FUEL_BLOCK_TIME,
                                     amount |-> amount])]
    /\ UNCHANGED <<lifeVars, now, alertQueue, alerterVars, actionVars, chain, watch_config,
                   account_address, last_commit_check_block, watchPc, lastStep, iteration,
                   ethereumNode>>

\* A call of get_base_amount_withdrawn by an indicator of the fuel loop.
BaseAmountWithdrawn ==
    /\ Len(fuelNode.calls) < MaxCalls
    /\ \E timeframe \in TimeFrames :
         LET r == get_base_amount_withdrawn(fuelNode.blocks,
                                            fuelNode.asset_withdrawal_cache, timeframe)
         IN fuelNode' =
               [fuelNode EXCEPT
                  !.asset_withdrawal_cache = r.cache,
                  !.calls = Append(@, [timeframe |-> timeframe,
                                       head |-> Len(fuelNode.blocks),
                                       fetched |-> r.fetched,
                                       total |-> r.value])]
    /\ UNCHANGED <<lifeVars, now, alertQueue, alerterVars, actionVars, chain, watch_config,
                   account_address, last_commit_check_block, watchPc, lastStep, iteration,
                   ethereumNode>>

NextFuel == ProduceBlock \/ BaseAmountWithdrawn

SpecFuel == InitFuel /\ [][NextFuel]_vars

\* The blocks of the chain at the time of a call.
BlocksAt(call) == SubSeq(fuelNode.blocks, 1, call.head)

\* The uncached totals of a call: over the blocks with a timestamp in the
\* trailing time frame, and over the latest timeframe / FUEL_BLOCK_TIME
\* blocks, which is what a call with an empty cache fetches.
WindowTotal(call) ==
    LET blocks == BlocksAt(call)
        start == blocks[Len(blocks)].time - call.timeframe
        inside == {i \in DOMAIN blocks : blocks[i].time >= start}
    IN SumOver([i \in DOMAIN blocks |-> blocks[i].amount], inside)

LatestBlocksTotal(call) ==
    LET fetched == get_blocks(BlocksAt(call), call.timeframe \div FUEL_BLOCK_TIME)
    IN SumOver([i \in DOMAIN fetched |-> fetched[i].amount], DOMAIN fetched)

\* C40: get_base_amount_withdrawn(timeframe) returns the total of an
\* uncached computation over the blocks of the trailing time frame: every
\* block is counted once, and the blocks produced since the call before are
\* included.
C40_CachedEqualsUncached ==
    \A k \in DOMAIN fuelNode.calls :
       fuelNode.calls[k].total \in {WindowTotal(fuelNode.calls[k]),
                                    LatestBlocksTotal(fuelNode.calls[k])}

\* C40, as far as it holds: the call that finds the cache empty returns the
\* total of the latest timeframe / FUEL_BLOCK_TIME blocks and leaves one
\* cache entry for each of them.
C40_FirstCallUncached ==
    fuelNode.calls # <<>> =>
       /\ fuelNode.calls[1].total = LatestBlocksTotal(fuelNode.calls[1])
       /\ Len(fuelNode.calls) = 1 =>
             \A t \in DOMAIN fuelNode.asset_withdrawal_cache :
                \E i \in DOMAIN fuelNode.blocks :
                   /\ fuelNode.blocks[i].time = t
                   /\ fuelNode.blocks[i].amount = fuelNode.asset_withdrawal_cache[t]

\* A first call over three blocks with withdrawals.
C40_WitnessFirstCall ==
    /\ Len(fuelNode.calls) = 1
    /\ fuelNode.calls[1].fetched = 3
    /\ fuelNode.calls[1].total = 15

\* A second call answered from the cache alone after the chain produced a
\* block with a withdrawal: its total is below both uncached totals.
C40_WitnessStaleCache ==
    /\ Len(fuelNode.calls) = 2
    /\ fuelNode.calls[2].head > fuelNode.calls[1].head
    /\ fuelNode.calls[2].fetched = 0
    /\ fuelNode.calls[2].total < LatestBlocksTotal(fuelNode.calls[2])
    /\ fuelNode.calls[2].total < WindowTotal(fuelNode.calls[2])

====
